---- MODULE Spec2Model ----
(***************************************************************************)
(* Lead synchronisation, the sync queue and the callback saga of joy.      *)
(*                                                                         *)
(* Dates are seconds since 2025-03-20T00:00:00Z (the code computes in      *)
(* milliseconds; every date of the model is a whole second).  Job delays   *)
(* are milliseconds, as in the job options.  A table is the bag of its     *)
(* rows: row ids are random uuids and no query of the modelled code orders *)
(* its result.                                                             *)
(***************************************************************************)
EXTENDS Integers, Sequences, FiniteSets, Bags, TLC

VARIABLES
  now,             \* Date.now() at the instants the model observes
  srState,         \* integration_state row of provider "salesrabbit"
  tasks,           \* table tasks
  calendarEvents,  \* table calendar_events
  syncJobs,        \* on-demand jobs of the BullMQ queue "sync", in the order added
  planningJobs,    \* on-demand jobs of the BullMQ queue "planning"
  biginDeals,      \* the deals in the CRM: by lead as POST /Deals created them, or
                   \* (CursorLiveSpec) as GET /Deals serves them
  googleState,     \* integration_state row of provider "google"
  biginState,      \* integration_state row of provider "bigin"
  gcal,            \* the events of the Google calendars, as the API serves them
  runs,            \* the sync runs in flight, by process: their local variables
  lastRun,         \* what the run that completed last did (calls, writes)
  queues           \* the two BullMQ queues of the worker: the repeatable
                   \* registrations, the repeat jobs waiting, the jobs executing

\* the calendar and CRM side: untouched by the lead sync and the saga runs
syncVars == <<googleState, biginState, gcal, runs, lastRun, queues>>

vars == <<now, srState, tasks, calendarEvents, syncJobs, planningJobs, biginDeals,
          googleState, biginState, gcal, runs, lastRun, queues>>

-----------------------------------------------------------------------------
(* Bounds and domains *)

MaxJobs == 3
Leads == {"41", "42"}
None == "none"        \* an absent string (null / undefined)
NoTime == 0 - 1       \* an absent date
NoRef == <<>>         \* an absent row reference
\* the instants observed: midnight, and 15:00 when the day's appointments are past
TimePoints == {0, 54000}
CustomFieldNames == {"cb"}

-----------------------------------------------------------------------------
(* Strings *)

\* String.prototype.toLowerCase on the strings that occur
toLowerCase(s) ==
  CASE s = "Callback" -> "callback"
    [] s = "Pending" -> "pending"
    [] s = "Appointment Set" -> "appointment set"
    [] s = "YES" -> "yes"
    [] OTHER -> s

\* `sr_${lead.id}`, `sr_proposal_${lead.id}`: prefix and id
ExternalId(prefix, leadId) == <<prefix, leadId>>

-----------------------------------------------------------------------------
(* Callback trigger configuration *)

DEFAULT_CALLBACK_CONFIG ==
  [enabled |-> FALSE, statusNameMatch |-> "Callback", customFieldName |-> "",
   customFieldValue |-> "", proposalPrepMinutes |-> 90]

\* { ...a, ...b }
Spread(a, b) ==
  [k \in DOMAIN a \cup DOMAIN b |-> IF k \in DOMAIN b THEN b[k] ELSE a[k]]

\* an absent callbackTrigger is the empty record
getCallbackConfig(config) == Spread(DEFAULT_CALLBACK_CONFIG, config.callbackTrigger)

isCallbackLead(lead, config) ==
  IF ~config.enabled THEN FALSE
  ELSE LET statusName == lead.statusName IN
       IF config.statusNameMatch # ""
          /\ toLowerCase(statusName) = toLowerCase(config.statusNameMatch)
       THEN TRUE
       ELSE IF config.customFieldName # ""
               /\ config.customFieldName \in DOMAIN lead.customFields
               /\ lead.customFields[config.customFieldName] # ""
            THEN \/ config.customFieldValue = ""
                 \/ toLowerCase(lead.customFields[config.customFieldName])
                      = toLowerCase(config.customFieldValue)
            ELSE FALSE

\* the PATCH bodies sent to setCallbackTriggerConfig
StatusTrigger == [enabled |-> TRUE]
CustomFieldTrigger ==
  [enabled |-> TRUE, statusNameMatch |-> "", customFieldName |-> "cb",
   customFieldValue |-> "yes", proposalPrepMinutes |-> 60]
ConfigUpdates == {StatusTrigger, CustomFieldTrigger}

-----------------------------------------------------------------------------
(* Leads as the lead tracker returns them *)

\* the shapes of lead the lead tracker returns
LeadShapes ==
  { [statusName |-> "Callback", appointmentDate |-> FALSE, appointmentTime |-> NoTime, cb |-> ""],
    [statusName |-> "Pending", appointmentDate |-> FALSE, appointmentTime |-> NoTime, cb |-> "YES"],
    [statusName |-> "Appointment Set", appointmentDate |-> TRUE, appointmentTime |-> NoTime, cb |-> ""],
    [statusName |-> "Callback", appointmentDate |-> TRUE, appointmentTime |-> 50400, cb |-> ""] }

LeadRecords ==
  { [id |-> i, statusName |-> s.statusName, appointmentDate |-> s.appointmentDate,
     appointmentTime |-> s.appointmentTime,
     customFields |-> [f \in CustomFieldNames |-> s.cb]] : i \in Leads, s \in LeadShapes }

\* new Date(`${lead.appointmentDate}T09:00:00`)
NineOClock == 9 * 60 * 60

\* the leads a GET /leads returns: lead 42 in every shape but the date-only one,
\* lead 41 as a callback lead without appointment
ListedLeads ==
  { l \in LeadRecords :
      /\ l.statusName # "Appointment Set"
      /\ (l.id = "41" => (l.statusName = "Callback" /\ ~l.appointmentDate)) }

\* the lists a GET /leads returns: no lead, one lead, or leads 41 and 42
LeadLists ==
  {<<>>} \cup { <<l>> : l \in ListedLeads }
         \cup { q \in ListedLeads \X ListedLeads : q[1].id = "41" /\ q[2].id = "42" }

-----------------------------------------------------------------------------
(* Rows *)

Insert(table, row) == table (+) SetToBag({row})

\* UPDATE ... WHERE id = <the id of row>
Update(table, row, newRow) == (table (-) SetToBag({row})) (+) SetToBag({newRow})

\* the lookup by a source name the rows are not written with
FindTaskBySourceLeads(ts, externalId, externalSource) ==
  { r \in BagToSet(ts) : r.externalId = externalId /\ r.externalSource = "leads" }

FindTask(ts, externalId, externalSource) ==
  { r \in BagToSet(ts) : r.externalId = externalId /\ r.externalSource = externalSource }

\* const [existing] = await db.select()...: one of the rows returned
First(S) == CHOOSE r \in S : TRUE

-----------------------------------------------------------------------------
(* The callback saga job as the lead sync enqueues it *)

\* the options with one attempt more: a budget C6 excludes
CallbackJobOptsFiveAttempts == [delay |-> 10 * 60 * 1000, attempts |-> 5, backoff |-> "custom"]

\* the options of queue.add("callback-workflow", ...)
CallbackJobOpts == [delay |-> 10 * 60 * 1000, attempts |-> 4, backoff |-> "custom"]

\* a job as Queue.add stores it: delayed by opts.delay
NewCallbackJob(lead, callbackConfig) ==
  [name |-> "callback-workflow",
   data |-> [lead |-> lead.id, proposalPrepMinutes |-> callbackConfig.proposalPrepMinutes,
             biginDealId |-> None],
   opts |-> CallbackJobOpts,
   attemptsMade |-> 0,
   state |-> "delayed",
   delay |-> CallbackJobOpts.delay,
   runs |-> 0,              \* executions of runCallbackWorkflow so far
   outcome |-> None,        \* how the last processing of the job ended
   appointment |-> NoTime]  \* the start of the last appointment an execution found

-----------------------------------------------------------------------------
(* One iteration of the lead loop *)

\* a lookup that never finds the lead's appointment: what C38 excludes
alreadyExistsNever(events, leadId) == FALSE

\* existingEvents.find((e) => e.metadata?.salesrabbitLeadId === lead.id) among
\* the events of source "salesrabbit"
alreadyExists(events, leadId) ==
  \E e \in BagToSet(events) : e.source = "salesrabbit" /\ e.salesrabbitLeadId = leadId

\* st: the tables and counters the loop works on; redisOk: whether Queue.add succeeds
SyncLead(st, lead, config, redisOk, t) ==
  LET externalId == ExternalId("sr", lead.id)
      statusName == lead.statusName
      found == FindTask(st.tasks, externalId, "salesrabbit")
      hasExisting == found # {}
      existing == First(found)
      \* the update of an existing row keeps every field of the model; a new row
      \* is inserted without callbackProcessed
      tasks1 ==
        IF hasExisting THEN st.tasks
        ELSE Insert(st.tasks,
               [externalId |-> externalId, externalSource |-> "salesrabbit",
                status |-> "inbox", completedAt |-> NoTime,
                estimatedMinutes |-> NoTime, deadline |-> NoTime,
                callbackProcessed |-> FALSE])
      callbackConfig == getCallbackConfig(config)
      \* existingMeta is the metadata of the row as selected
      existingProcessed == hasExisting /\ existing.callbackProcessed
      trigger == /\ callbackConfig.enabled
                 /\ isCallbackLead(lead, callbackConfig)
                 /\ ~existingProcessed
      tasks2 == IF trigger /\ hasExisting
                THEN Update(tasks1, existing, [existing EXCEPT !.callbackProcessed = TRUE])
                ELSE tasks1
      jobs1 == IF trigger /\ redisOk
               THEN Append(st.syncJobs, NewCallbackJob(lead, callbackConfig))
               ELSE st.syncJobs
      \* appointments
      wantsEvent == /\ lead.appointmentDate
                    /\ (statusName = "Appointment Set" \/ lead.appointmentTime # NoTime)
      startTime == IF lead.appointmentTime # NoTime THEN lead.appointmentTime ELSE NineOClock
      endTime == startTime + 60 * 60
      create == wantsEvent /\ ~alreadyExists(st.calendarEvents, lead.id) /\ startTime > t
      events1 == IF create
                 THEN Insert(st.calendarEvents,
                        [mentions |-> lead.id,   \* title `Appointment: ${contactName}`
                         startTime |-> startTime, endTime |-> endTime,
                         taskId |-> NoRef, source |-> "salesrabbit", isBlocker |-> TRUE,
                         salesrabbitLeadId |-> lead.id, callbackPrepLeadId |-> None])
                 ELSE st.calendarEvents
  IN [tasks |-> tasks2, calendarEvents |-> events1, syncJobs |-> jobs1,
      newTasks |-> IF hasExisting THEN st.newTasks ELSE st.newTasks + 1,
      newAppointments |-> IF create THEN st.newAppointments + 1 ELSE st.newAppointments]

\* for (const lead of leads) { ... }
RECURSIVE SyncLeadList(_, _, _, _, _)
SyncLeadList(st, leads, config, redisOk, t) ==
  IF leads = <<>> THEN st
  ELSE SyncLeadList(SyncLead(st, Head(leads), config, redisOk, t),
                    Tail(leads), config, redisOk, t)

LoopStart ==
  [tasks |-> tasks, calendarEvents |-> calendarEvents, syncJobs |-> syncJobs,
   newTasks |-> 0, newAppointments |-> 0]

\* planningQueue.add("replan", ...)
ReplanJob == [name |-> "replan"]

-----------------------------------------------------------------------------
(* Integration state of the calendar and the CRM; OAuth tokens *)

\* an integration_state row that was never connected (or the row missing)
NoIntegration ==
  [isActive |-> FALSE, accessToken |-> None, refreshToken |-> None,
   tokenExpiresAt |-> NoTime, syncCursor |-> NoTime, lastSyncAt |-> NoTime,
   config |-> [joyCalendarId |-> None, joyWorkCalendarId |-> None,
               joyPersonalCalendarId |-> None, workCalendarId |-> None]]

\* the queues of a fresh Redis: nothing registered, waiting or executing
NoQueues ==
  [repeat |-> [planning |-> {}, sync |-> {}],
   wait |-> [planning |-> <<>>, sync |-> <<>>],
   active |-> [planning |-> EmptyBag, sync |-> EmptyBag],
   scheduled |-> FALSE,   \* setupSchedules has run
   ticked |-> 0]          \* the jobs the last cron instant yielded

\* no run in flight, nothing observed
NoRun ==
  [kind |-> None, n |-> 0, creates |-> <<>>, created |-> {}, prevCreated |-> {},
   seen |-> {}, written |-> {}, deleted |-> {}, unlisted |-> {}, listings |-> 0,
   listIssued |-> FALSE, pushedLate |-> FALSE, answers |-> <<>>, returned |-> FALSE,
   lookups |-> {}]

SyncIdle ==
  /\ googleState = NoIntegration
  /\ biginState = NoIntegration
  /\ gcal = {}
  /\ runs = [p \in {} |-> NoRun]
  /\ lastRun = NoRun
  /\ queues = NoQueues

\* 1970-01-01T00:00:00Z in the model's seconds since 2025-03-20T00:00:00Z
Epoch == 0 - 1742428800

\* state.tokenExpiresAt?.getTime() || 0
ExpiresAt(state) ==
  IF state.tokenExpiresAt = NoTime THEN Epoch ELSE state.tokenExpiresAt

\* the refresh at the expiry itself, without the five minutes: what C18 excludes
NeedsRefreshAtExpiry(state, t) == t > ExpiresAt(state)

\* Date.now() > expiresAt - 5 * 60 * 1000
NeedsRefresh(state, t) == t > ExpiresAt(state) - 5 * 60

\* the row as `select ... where provider = ... and isActive = true` returns it
Usable(state) == state.isActive /\ state.accessToken # None

\* how POST /oauth/v2/token can end: a token; a non-2xx answer; a 2xx answer
\* without access_token; the fetch throwing
RefreshOutcomes == {"ok", "not_ok", "no_token", "network_error"}

\* data.expires_in || 3600
ExpiresIn == 60 * 60

Refreshed(state, t) ==
  [state EXCEPT !.accessToken = "refreshed", !.tokenExpiresAt = t + ExpiresIn]

Deactivated(state) == [state EXCEPT !.isActive = FALSE]

\* how the revocation call of a disconnect can end: accepted, answered with an
\* error status, or throwing
RevokeOutcomes == {"ok", "rejected", "throws"}

\* a disconnect whose catch deactivates the row and returns, leaving the token
\* material: what C21 excludes
DisconnectedUnlessRevokeThrows(state, revoke) ==
  IF revoke = "throws" THEN [state EXCEPT !.isActive = FALSE]
  ELSE [state EXCEPT !.isActive = FALSE, !.accessToken = None, !.refreshToken = None,
                     !.tokenExpiresAt = NoTime, !.syncCursor = NoTime]

\* lib disconnect of the calendar and of the CRM: the revocation in a try
\* whose catch is empty, then the UPDATE of the row
Disconnected(state, revoke) ==
  [state EXCEPT !.isActive = FALSE, !.accessToken = None, !.refreshToken = None,
                !.tokenExpiresAt = NoTime, !.syncCursor = NoTime]

\* What a token lookup yields: the token to call the provider with (None:
\* no call is to be made), the row afterwards, the refresh calls made, and
\* whether it threw.
Lookup(token, state, refreshCalls, threw) ==
  [token |-> token, state |-> state, refreshCalls |-> refreshCalls, threw |-> threw]

\* lib/bigin: refreshAccessToken, null on every failure
refreshAccessToken(state, t, outcome) ==
  IF outcome = "ok" THEN Lookup("refreshed", Refreshed(state, t), 1, FALSE)
  ELSE Lookup(None, state, 1, FALSE)

\* lib/bigin: getAccessToken
getAccessToken(state, t, outcome) ==
  IF ~Usable(state) THEN Lookup(None, state, 0, FALSE)
  ELSE IF NeedsRefresh(state, t)
  THEN IF state.refreshToken = None THEN Lookup(None, Deactivated(state), 0, FALSE)
       ELSE LET r == refreshAccessToken(state, t, outcome) IN
            IF r.token = None THEN Lookup(None, Deactivated(state), 1, FALSE) ELSE r
  ELSE Lookup(state.accessToken, state, 0, FALSE)

\* worker runBiginSync: the token part
runBiginSyncToken(state, t, outcome) ==
  IF ~Usable(state) THEN Lookup(None, state, 0, FALSE)
  ELSE IF NeedsRefresh(state, t)
  THEN IF state.refreshToken = None THEN Lookup(None, Deactivated(state), 0, FALSE)
       ELSE CASE outcome = "not_ok" -> Lookup(None, Deactivated(state), 1, FALSE)
              [] outcome = "no_token" -> Lookup(None, state, 1, FALSE)
              [] outcome = "network_error" -> Lookup(None, state, 1, FALSE)
              [] OTHER -> Lookup("refreshed", Refreshed(state, t), 1, FALSE)
  ELSE Lookup(state.accessToken, state, 0, FALSE)

\* callback-workflow: getBiginToken; its fetch is in no try
getBiginToken(state, t, outcome) ==
  IF ~Usable(state) THEN Lookup(None, state, 0, FALSE)
  ELSE IF NeedsRefresh(state, t)
  THEN IF state.refreshToken = None THEN Lookup(None, state, 0, FALSE)
       ELSE CASE outcome = "not_ok" -> Lookup(None, state, 1, FALSE)
              [] outcome = "no_token" -> Lookup(None, state, 1, FALSE)
              [] outcome = "network_error" -> Lookup(None, state, 1, TRUE)
              [] OTHER -> Lookup("refreshed", Refreshed(state, t), 1, FALSE)
  ELSE Lookup(state.accessToken, state, 0, FALSE)

\* how oauth2.refreshAccessToken() can end: credentials, or a throw (it throws
\* without a request when no refresh token is set)
GoogleRefreshOutcomes == {"ok", "error"}

\* the refresh request is sent only when a refresh token is set
GoogleRefreshCalls(state) == IF state.refreshToken = None THEN 0 ELSE 1

GoogleRefreshFails(state, outcome) == state.refreshToken = None \/ outcome = "error"

\* lib/google-calendar: getCalendarClient; the client is its access token
getCalendarClient(state, t, outcome) ==
  IF ~Usable(state) THEN Lookup(None, state, 0, FALSE)
  ELSE IF NeedsRefresh(state, t)
  THEN IF GoogleRefreshFails(state, outcome)
       THEN Lookup(None, Deactivated(state), GoogleRefreshCalls(state), FALSE)
       ELSE Lookup("refreshed", Refreshed(state, t), 1, FALSE)
  ELSE Lookup(state.accessToken, state, 0, FALSE)

\* worker runGoogleCalendarSync: the connection check and the refresh
runGoogleCalendarSyncClient(state, t, outcome) ==
  IF ~Usable(state) THEN Lookup(None, state, 0, FALSE)
  ELSE IF NeedsRefresh(state, t)
  THEN IF GoogleRefreshFails(state, outcome)
       THEN Lookup(None, Deactivated(state), GoogleRefreshCalls(state), FALSE)
       ELSE Lookup("refreshed", Refreshed(state, t), 1, FALSE)
  ELSE Lookup(state.accessToken, state, 0, FALSE)

\* callback-workflow findMatchingAppointment: the client of the live lookup
findMatchingAppointmentClient(state, t, outcome) ==
  IF ~Usable(state) THEN Lookup(None, state, 0, FALSE)
  ELSE IF NeedsRefresh(state, t)
  THEN IF GoogleRefreshFails(state, outcome)
       THEN Lookup(None, state, GoogleRefreshCalls(state), FALSE)
       ELSE Lookup("refreshed", Refreshed(state, t), 1, FALSE)
  ELSE Lookup(state.accessToken, state, 0, FALSE)

-----------------------------------------------------------------------------
(* Initial state: the lead tracker not connected, empty tables and queues *)

Init ==
  /\ now = 0
  /\ srState = [isActive |-> FALSE, accessToken |-> None, refreshToken |-> None,
                tokenExpiresAt |-> NoTime, syncCursor |-> NoTime, lastSyncAt |-> NoTime,
                config |-> [callbackTrigger |-> <<>>]]
  /\ tasks = EmptyBag
  /\ calendarEvents = EmptyBag
  /\ syncJobs = <<>>
  /\ planningJobs = <<>>
  /\ biginDeals = EmptyBag
  /\ SyncIdle

-----------------------------------------------------------------------------
(* Time *)

Tick ==
  /\ \E t \in TimePoints : t > now /\ now' = t
  /\ UNCHANGED <<srState, tasks, calendarEvents, syncJobs, planningJobs, biginDeals, syncVars>>

-----------------------------------------------------------------------------
(* Lead tracker connection (web process) *)

\* connect(apiToken): the row is upserted with config { userId } when the token works
Connect(authOk) ==
  /\ srState' = IF authOk
                THEN [srState EXCEPT !.isActive = TRUE, !.accessToken = "token",
                                     !.config = [callbackTrigger |-> <<>>]]
                ELSE srState
  /\ UNCHANGED <<now, tasks, calendarEvents, syncJobs, planningJobs, biginDeals, syncVars>>

Disconnect ==
  /\ srState' = [srState EXCEPT !.isActive = FALSE, !.accessToken = None,
                                !.syncCursor = NoTime]
  /\ UNCHANGED <<now, tasks, calendarEvents, syncJobs, planningJobs, biginDeals, syncVars>>

setCallbackTriggerConfig(updates) ==
  /\ srState' = [srState EXCEPT !.config.callbackTrigger =
                    Spread(getCallbackConfig(srState.config), updates)]
  /\ UNCHANGED <<now, tasks, calendarEvents, syncJobs, planningJobs, biginDeals, syncVars>>

-----------------------------------------------------------------------------
(* Lead sync *)

Connected == srState.isActive /\ srState.accessToken # None

\* The scheduled job of the worker process, GET /leads answered with `status`
runSalesRabbitSyncFailed(status) ==
  /\ Connected
  /\ srState' = IF status = 401 THEN [srState EXCEPT !.isActive = FALSE] ELSE srState
  /\ UNCHANGED <<now, tasks, calendarEvents, syncJobs, planningJobs, biginDeals, syncVars>>

\* The scheduled job of the worker process, GET /leads answered with `leads`
runSalesRabbitSync(leads, redisOk) ==
  /\ Connected
  /\ LET st == SyncLeadList(LoopStart, leads, srState.config, redisOk, now) IN
       /\ Len(st.syncJobs) <= MaxJobs
       /\ tasks' = st.tasks
       /\ calendarEvents' = st.calendarEvents
       /\ syncJobs' = st.syncJobs
       /\ srState' = [srState EXCEPT !.lastSyncAt = now, !.syncCursor = now]
       /\ planningJobs' = IF st.newAppointments > 0 /\ redisOk
                          THEN Append(planningJobs, ReplanJob) ELSE planningJobs
  /\ UNCHANGED <<now, biginDeals, syncVars>>

\* syncLeads() of the web process; srFetch throws when the provider is not
\* active, and a non-2xx answer returns before the loop
syncLeads(ok, leads, redisOk) ==
  IF ~Connected \/ ~ok THEN LoopStart
  ELSE SyncLeadList(LoopStart, leads, srState.config, redisOk, now)

\* fullSync(): syncLeads, then the sync timestamps
fullSync(ok, leads, redisOk) ==
  LET st == syncLeads(ok, leads, redisOk) IN
  /\ Len(st.syncJobs) <= MaxJobs
  /\ tasks' = st.tasks
  /\ calendarEvents' = st.calendarEvents
  /\ syncJobs' = st.syncJobs
  /\ srState' = [srState EXCEPT !.lastSyncAt = now, !.syncCursor = now]
  /\ UNCHANGED <<now, biginDeals, syncVars>>

\* POST /api/integrations/salesrabbit/sync: a manual sync, refused unless connected
ManualSync(ok, leads, redisOk) ==
  /\ srState.isActive
  /\ fullSync(ok, leads, redisOk)
  /\ UNCHANGED planningJobs

\* a webhook that asks for a replan whatever the sync found: what C31 excludes
needsReplanAlways(result) == TRUE

\* handleWebhook: { needsReplan: result.newAppointments > 0 }
needsReplan(result) == result.newAppointments > 0

\* POST /api/integrations/salesrabbit/webhook: handleWebhook, then the replan
Webhook(ok, leads, redisOk) ==
  /\ fullSync(ok, leads, redisOk)
  /\ planningJobs' =
       IF needsReplan(syncLeads(ok, leads, redisOk)) /\ redisOk
       THEN Append(planningJobs, ReplanJob) ELSE planningJobs

-----------------------------------------------------------------------------
(* The sync worker as deployed *)

\* the job names syncWorker's switch has a case for
SyncWorkerCases ==
  {"google-calendar-sync", "bigin-sync", "salesrabbit-sync", "grocery-cleanup"}

\* A delayed job is due once its delay has passed; the delay passes between two
\* steps of the model.
Due(j) == syncJobs[j].state = "delayed"

\* syncWorker takes a due on-demand job whose name has no case: the default branch
\* logs "Unknown job", the processor returns and the job completes
SyncWorkerUnknownJob(j) ==
  /\ Due(j)
  /\ syncJobs[j].name \notin SyncWorkerCases
  /\ syncJobs' = [syncJobs EXCEPT ![j].state = "completed", ![j].outcome = "unknown_job"]
  /\ UNCHANGED <<now, srState, tasks, calendarEvents, planningJobs, biginDeals, syncVars>>

Next ==
  \/ Tick
  \/ \E authOk \in BOOLEAN : Connect(authOk)
  \/ Disconnect
  \/ \E updates \in ConfigUpdates : setCallbackTriggerConfig(updates)
  \/ \E status \in {401, 500} : runSalesRabbitSyncFailed(status)
  \/ \E leads \in LeadLists, redisOk \in BOOLEAN : runSalesRabbitSync(leads, redisOk)
  \/ \E leads \in LeadLists, redisOk \in BOOLEAN : ManualSync(TRUE, leads, redisOk)
  \/ \E redisOk \in BOOLEAN : ManualSync(FALSE, <<>>, redisOk)
  \/ \E leads \in LeadLists, redisOk \in BOOLEAN : Webhook(TRUE, leads, redisOk)
  \/ \E redisOk \in BOOLEAN : Webhook(FALSE, <<>>, redisOk)
  \/ \E j \in DOMAIN syncJobs : SyncWorkerUnknownJob(j)

Spec == Init /\ [][Next]_vars

\* The webhook alone: the lead tracker connected and configured by the user,
\* the clock, and the webhooks the tracker sends
WebhookNext ==
  \/ Tick
  \/ \E authOk \in BOOLEAN : Connect(authOk)
  \/ Disconnect
  \/ \E updates \in ConfigUpdates : setCallbackTriggerConfig(updates)
  \/ \E leads \in LeadLists, redisOk \in BOOLEAN : Webhook(TRUE, leads, redisOk)
  \/ \E redisOk \in BOOLEAN : Webhook(FALSE, <<>>, redisOk)

WebhookSpec == Init /\ [][WebhookNext]_vars


-----------------------------------------------------------------------------
(* The callback saga: src/worker/jobs/callback-workflow.ts *)

\* the schedule keyed one attempt late (30 min for attemptsMade 2, ...): the
\* off-by-one C7 excludes
getCallbackBackoffDelayShifted(attemptsMade) ==
  CASE attemptsMade = 2 -> 30 * 60 * 1000
    [] attemptsMade = 3 -> 60 * 60 * 1000
    [] attemptsMade = 4 -> 2 * 60 * 60 * 1000
    [] OTHER -> 60 * 60 * 1000

getCallbackBackoffDelay(attemptsMade) ==
  CASE attemptsMade = 1 -> 30 * 60 * 1000
    [] attemptsMade = 2 -> 60 * 60 * 1000
    [] attemptsMade = 3 -> 2 * 60 * 60 * 1000
    [] OTHER -> 60 * 60 * 1000

\* How step 1 can end: no usable CRM token; POST /Deals refused, or its fetch
\* failing inside the try; the deal created; a fetch outside the try failing
\* (the token refresh, the field discovery)
DealOutcomes == {"not_connected", "rejected", "created", "network_error"}

createBiginDeal(leadId, deals, outcome) ==
  CASE outcome = "created" ->
         [threw |-> FALSE, id |-> ToString(BagCardinality(deals) + 1),
          deals |-> Insert(deals, leadId)]
    [] outcome = "network_error" -> [threw |-> TRUE, id |-> None, deals |-> deals]
    [] OTHER -> [threw |-> FALSE, id |-> None, deals |-> deals]

ProposalTask(leadId, prepMinutes) ==
  [externalId |-> ExternalId("sr_proposal", leadId), externalSource |-> "salesrabbit",
   status |-> "inbox", completedAt |-> NoTime,
   estimatedMinutes |-> prepMinutes, deadline |-> NoTime,
   callbackProcessed |-> FALSE]

\* TaskCreation without the lookup of the existing task: what C4 excludes
createProposalTaskAlwaysInsert(leadId, prepMinutes, ts, insertOk) ==
  IF insertOk
  THEN [threw |-> FALSE, task |-> ProposalTask(leadId, prepMinutes),
        tasks |-> Insert(ts, ProposalTask(leadId, prepMinutes))]
  ELSE [threw |-> TRUE, task |-> ProposalTask(leadId, prepMinutes), tasks |-> ts]

\* insertOk: whether the store accepts the insert
createProposalTask(leadId, prepMinutes, ts, insertOk) ==
  LET found == FindTask(ts, ExternalId("sr_proposal", leadId), "salesrabbit") IN
  IF found # {} THEN [threw |-> FALSE, task |-> First(found), tasks |-> ts]
  ELSE IF insertOk
  THEN [threw |-> FALSE, task |-> ProposalTask(leadId, prepMinutes),
        tasks |-> Insert(ts, ProposalTask(leadId, prepMinutes))]
  ELSE [threw |-> TRUE, task |-> ProposalTask(leadId, prepMinutes), tasks |-> ts]

SixtyDays == 60 * 24 * 60 * 60

\* the local events in the window whose text contains the lead's last name or street
LocalMatches(leadId, events, t) ==
  { e \in BagToSet(events) :
      e.startTime >= t /\ e.startTime <= t + SixtyDays /\ e.mentions = leadId }

\* remote: the start of the first matching event of the live calendar lookup, or
\* NoTime (nothing matches, the calendar is not connected, the refresh or the
\* listing failed)
findMatchingAppointment(leadId, events, t, remote) ==
  LET localMatches == LocalMatches(leadId, events, t) IN
  IF localMatches # {} THEN First(localMatches).startTime ELSE remote

bufferMinutes == 15

\* the block ending at the appointment's start, without the buffer: what C8 excludes
PrepEndTimeNoBuffer(appointmentStart) == appointmentStart

PrepEndTime(appointmentStart) == appointmentStart - bufferMinutes * 60

PrepStartTime(prepEndTime, prepMinutes) == prepEndTime - prepMinutes * 60

\* the idempotency check looking among the lead tracker's events, where no
\* prep block is: what C9 excludes
AlreadyScheduledBySource(events, leadId) ==
  \E e \in BagToSet(events) : e.source = "salesrabbit" /\ e.callbackPrepLeadId = leadId

AlreadyScheduled(events, leadId) ==
  \E e \in BagToSet(events) : e.source = "ai_planned" /\ e.callbackPrepLeadId = leadId

\* How the two writes of step 4 can end
Step4Outcomes == {"ok", "insert_rejected", "update_rejected"}

schedulePrepWork(task, leadId, prepMinutes, appointmentStart, ts, events, writes) ==
  IF AlreadyScheduled(events, leadId)
  THEN [threw |-> FALSE, tasks |-> ts, calendarEvents |-> events]
  ELSE IF writes = "insert_rejected"
  THEN [threw |-> TRUE, tasks |-> ts, calendarEvents |-> events]
  ELSE LET prepEndTime == PrepEndTime(appointmentStart)
           prepStartTime == PrepStartTime(prepEndTime, prepMinutes)
           events1 == Insert(events,
                        [mentions |-> None,   \* "Prepare proposal"
                         startTime |-> prepStartTime, endTime |-> prepEndTime,
                         taskId |-> task.externalId, source |-> "ai_planned",
                         isBlocker |-> FALSE,
                         salesrabbitLeadId |-> None, callbackPrepLeadId |-> leadId])
       IN IF writes = "update_rejected"
          THEN [threw |-> TRUE, tasks |-> ts, calendarEvents |-> events1]
          ELSE [threw |-> FALSE, calendarEvents |-> events1,
                tasks |-> Update(ts, task, [task EXCEPT !.deadline = appointmentStart,
                                                        !.status = "scheduled"])]

\* if (attemptsMade < 3) throw
RetryWanted(attemptsMade) == attemptsMade < 3

\* One execution of the handler on job, with the outcomes `in` of its calls.
\* outcome: "scheduled", "unscheduled_final" (returns), "no_appointment" (the
\* retry request), "error" (any other throw).
runCallbackWorkflow(job, ts, events, deals, t, in) ==
  LET leadId == job.data.lead
      prepMinutes == job.data.proposalPrepMinutes
      first == job.attemptsMade = 0
      s1 == IF first THEN createBiginDeal(leadId, deals, in.deal)
            ELSE [threw |-> FALSE, id |-> None, deals |-> deals]
      biginDealId == IF first /\ s1.id # None THEN s1.id ELSE job.data.biginDealId
      s2 == createProposalTask(leadId, prepMinutes, ts, in.insertOk)
      appointment == findMatchingAppointment(leadId, events, t, in.remote)
      s4 == schedulePrepWork(s2.task, leadId, prepMinutes, appointment,
                             s2.tasks, events, in.writes)
      base == [threw |-> TRUE, outcome |-> "error", tasks |-> ts,
               calendarEvents |-> events, biginDeals |-> s1.deals,
               biginDealId |-> biginDealId, appointment |-> job.appointment]
  IN IF s1.threw THEN base
     ELSE IF s2.threw THEN base
     ELSE IF appointment = NoTime
     THEN IF RetryWanted(job.attemptsMade)
          THEN [base EXCEPT !.outcome = "no_appointment", !.tasks = s2.tasks]
          ELSE [base EXCEPT !.threw = FALSE, !.outcome = "unscheduled_final",
                            !.tasks = s2.tasks]
     ELSE [base EXCEPT !.threw = s4.threw,
                       !.outcome = IF s4.threw THEN "error" ELSE "scheduled",
                       !.tasks = s4.tasks, !.calendarEvents = s4.calendarEvents,
                       !.appointment = appointment]

\* What the queue does with a job after the processor returned or threw
Settle(job, r) ==
  LET ran == [job EXCEPT !.runs = @ + 1, !.outcome = r.outcome,
                         !.data.biginDealId = r.biginDealId,
                         !.appointment = r.appointment]
  IN IF ~r.threw THEN [ran EXCEPT !.state = "completed"]
     ELSE IF job.attemptsMade + 1 < job.opts.attempts
     THEN [ran EXCEPT !.attemptsMade = @ + 1, !.state = "delayed",
                      !.delay = getCallbackBackoffDelay(job.attemptsMade + 1)]
     ELSE [ran EXCEPT !.attemptsMade = @ + 1, !.state = "failed"]

\* the starts of the matching events the live calendar can hold
RemoteStarts == {43200}

\* A sync worker that has runCallbackWorkflow as the processor of a due
\* "callback-workflow" job and getCallbackBackoffDelay as its custom backoff
\* strategy: the worker the job is enqueued for.  The deployed syncWorker has
\* neither (SyncWorkerUnknownJob); SagaSpec is the handler's behaviour once wired.
SagaWorker(j, in) ==
  /\ Due(j)
  /\ syncJobs[j].name = "callback-workflow"
  /\ LET r == runCallbackWorkflow(syncJobs[j], tasks, calendarEvents, biginDeals, now, in) IN
       /\ tasks' = r.tasks
       /\ calendarEvents' = r.calendarEvents
       /\ biginDeals' = r.biginDeals
       /\ syncJobs' = [syncJobs EXCEPT ![j] = Settle(syncJobs[j], r)]
  /\ UNCHANGED <<now, srState, planningJobs, syncVars>>

\* the outcomes that can make a difference to the execution of job j
SagaInputs(j) ==
  LET job == syncJobs[j]
      leadId == job.data.lead
      hasTask == FindTask(tasks, ExternalId("sr_proposal", leadId), "salesrabbit") # {}
      local == LocalMatches(leadId, calendarEvents, now) # {}
  IN [deal : IF job.attemptsMade = 0 THEN DealOutcomes ELSE {"not_connected"},
      insertOk : IF hasTask THEN {TRUE} ELSE BOOLEAN,
      remote : IF local THEN {NoTime} ELSE {NoTime} \cup {s \in RemoteStarts : s >= now},
      writes : IF AlreadyScheduled(calendarEvents, leadId) THEN {"ok"} ELSE Step4Outcomes]

\* The start of the saga runs: the lead tracker is connected, the callback trigger
\* is configured, and lead 41 has been through it: one sync run saw it as a
\* callback lead with a 14:00 appointment, and its saga job ran once, created
\* the deal and scheduled the prep block.
Lead41 ==
  [id |-> "41", statusName |-> "Callback", appointmentDate |-> TRUE,
   appointmentTime |-> 50400, customFields |-> [f \in CustomFieldNames |-> ""]]

Synced41 ==
  SyncLead([tasks |-> EmptyBag, calendarEvents |-> EmptyBag, syncJobs |-> <<>>,
            newTasks |-> 0, newAppointments |-> 0],
           Lead41, [callbackTrigger |-> StatusTrigger], TRUE, 0)

Ran41 ==
  runCallbackWorkflow(Synced41.syncJobs[1], Synced41.tasks, Synced41.calendarEvents,
                      EmptyBag, 0,
                      [deal |-> "created", insertOk |-> TRUE, remote |-> NoTime,
                       writes |-> "ok"])

SagaInit ==
  /\ now = 0
  /\ \E updates \in ConfigUpdates :
       srState = [isActive |-> TRUE, accessToken |-> "token", refreshToken |-> None,
                  tokenExpiresAt |-> NoTime, syncCursor |-> 0, lastSyncAt |-> 0,
                  config |-> [callbackTrigger |-> Spread(DEFAULT_CALLBACK_CONFIG, updates)]]
  /\ tasks = Ran41.tasks
  /\ calendarEvents = Ran41.calendarEvents
  /\ syncJobs = <<Settle(Synced41.syncJobs[1], Ran41)>>
  /\ planningJobs = <<ReplanJob>>
  /\ biginDeals = Ran41.biginDeals
  /\ SyncIdle

\* the lead lists of the saga runs: lead 42, in every shape but the date-only one
SagaLeadLists ==
  { <<l>> : l \in { x \in ListedLeads : x.id = "42" } }

SagaNext ==
  \/ Tick
  \/ \E leads \in SagaLeadLists, redisOk \in BOOLEAN : runSalesRabbitSync(leads, redisOk)
  \/ \E j \in DOMAIN syncJobs : \E in \in SagaInputs(j) : SagaWorker(j, in)

SagaSpec == SagaInit /\ [][SagaNext]_vars

-----------------------------------------------------------------------------
(* The calendar sync: worker job, lib/google-calendar fullSync, planner push *)
(*                                                                         *)
(* In the specifications of this part a calendar_events row is             *)
(* [id, source, title, startTime, endTime, location, googleEventId] and a  *)
(* remote event is [calendarId, id, summary, start, end, location,         *)
(* joyEventId]; row ids are tuples, remote ids strings.                    *)

Day == 24 * 60 * 60

\* new Date(now.getFullYear(), now.getMonth(), now.getDate())
StartOfDay(t) == t - (t % Day)

\* startTime >= startDate and startTime < endDate, endDate 8 days after startDate
InHorizon(time, t) == time >= StartOfDay(t) /\ time < StartOfDay(t) + 8 * Day

\* the ids the calendar API gives the events it creates
GoogleIds == <<"g1", "g2", "g3", "g4", "g5", "g6">>

\* the sequence of the elements of a set, in an order the code does not control
RECURSIVE SeqOf(_)
SeqOf(S) ==
  IF S = {} THEN <<>>
  ELSE LET x == CHOOSE y \in S : TRUE IN <<x>> \o SeqOf(S \ {x})

\* res.data.id of events.insert: an id no event carries
FreshGoogleId(cal, events) ==
  LET used == {g.id : g \in cal} \cup {r.googleEventId : r \in BagToSet(events)}
      i == CHOOSE k \in 1..Len(GoogleIds) :
             /\ GoogleIds[k] \notin used
             /\ \A j \in 1..(k - 1) : GoogleIds[j] \in used
  IN GoogleIds[i]

\* the uuid of a new mirror row
FreshMirrorId(events) ==
  LET used == {r.id : r \in BagToSet(events)}
      n == CHOOSE k \in 1..(Cardinality(used) + 1) :
             /\ <<"m", k>> \notin used
             /\ \A j \in 1..(k - 1) : <<"m", j>> \in used
  IN <<"m", n>>

\* UPDATE calendar_events SET ... WHERE id = id; set holds the columns written
UpdateById(events, id, set) ==
  LET olds == {r \in BagToSet(events) : r.id = id} IN
  IF olds = {} THEN events ELSE Update(events, First(olds), Spread(First(olds), set))

\* DELETE FROM calendar_events WHERE id = id
DeleteById(events, id) ==
  LET olds == {r \in BagToSet(events) : r.id = id} IN events (-) SetToBag(olds)

\* gEvent.summary || "Busy"
Title(g) == IF g.summary = "" THEN "Busy" ELSE g.summary

\* events.list of a calendar between timeMin and timeMax
ListEvents(cal, calendarId, t) ==
  {g \in cal : /\ g.calendarId = calendarId
               /\ g.end > StartOfDay(t)
               /\ g.start < StartOfDay(t) + 8 * Day}

\* a pull that visits every listed event, its own included: what C24 excludes
MirroredUnmarked(listing) == listing

\* a pull that does not test gEvent.status: what C29 excludes
MirroredWhateverStatus(listing) == {g \in listing : g.joyEventId = NoRef /\ g.timed}

\* the listed events a pull mirrors: not those Joy created, not the all-day
\* ones (no start.dateTime or end.dateTime), not the cancelled ones (the events
\* of the model carry an id)
Mirrored(listing) ==
  {g \in listing : g.joyEventId = NoRef /\ g.timed /\ g.status # "cancelled"}

\* events.insert of a local event into a calendar
RemoteCopy(e, calendarId, id) ==
  [calendarId |-> calendarId, id |-> id, summary |-> e.title, start |-> e.startTime,
   end |-> e.endTime, location |-> e.location, joyEventId |-> e.id,
   timed |-> TRUE, status |-> "confirmed"]

\* the mirror row a pull inserts
MirrorRow(g, id) ==
  [id |-> id, source |-> "google_calendar", title |-> Title(g), startTime |-> g.start,
   endTime |-> g.end, location |-> g.location, googleEventId |-> g.id]

\* the local variables of a run, and what it has done so far:
\*   token, exp     the client's access token and its expiry
\*   queue          the rows or remote events the current loop still has to visit
\*   creates        the local ids events.insert was called for, in call order
\*   created        the <<local id, remote id>> pairs events.insert returned
\*   seen           the remote events the pull listed and visited
\*   written        the remote ids whose mirror the pull inserted or updated
\*   deleted        the remote ids whose mirror the drift cleanup deleted
\*   unlisted       the rows the drift cleanup selected whose id was not listed
\*   listIssued     events.list of the pull has been called
\*   pushedLate     events.insert was called after events.list of the pull
\*   calls          the provider API calls: when, with a token expiring when,
\*                  isActive of the row at that moment
NewRun(kind, pc) ==
  [kind |-> kind, pc |-> pc, token |-> None, exp |-> NoTime, joyCalendarId |-> None,
   queue |-> <<>>, calendars |-> <<>>, hasExisting |-> FALSE, existing |-> NoRef,
   newId |-> None, listed |-> {}, event |-> NoRef, joyCalIds |-> {},
   creates |-> <<>>, created |-> {}, seen |-> {}, written |-> {}, deleted |-> {},
   unlisted |-> {}, listings |-> 0, listIssued |-> FALSE, pushedLate |-> FALSE,
   answers |-> <<>>, returned |-> FALSE,
   calls |-> {}, refreshCalls |-> 0, refreshFailed |-> FALSE]

\* a provider API call at t
Called(run, state, t) ==
  [run EXCEPT !.calls = @ \cup {[at |-> t, exp |-> run.exp, isActive |-> state.isActive]}]

\* a token lookup of the run
LookedUp(run, before, r) ==
  [run EXCEPT !.token = r.token,
              !.exp = IF r.token = None THEN NoTime ELSE r.state.tokenExpiresAt,
              !.refreshCalls = @ + r.refreshCalls,
              !.refreshFailed = @ \/ (Usable(before) /\ r.token = None)]

\* how the calls of a run end: the token refresh, the creation of the Joy
\* calendars, events.insert, events.list per calendar, events.get
AllOk ==
  [refresh |-> "ok", migrate |-> TRUE, create |-> TRUE, createFails |-> {},
   listFails |-> {}, getFails |-> FALSE]

\* events.insert for event succeeds: create says whether the calendar accepts
\* inserts at all, createFails names the local events it rejects
CreateOk(in, event) == in.create /\ event.id \notin in.createFails

\* the worker's push loop ended by a failed events.insert: what C25 excludes
CreateFailedEndsRun(c, called) == [c EXCEPT !.run = [called EXCEPT !.pc = "done"]]

\* worker: catch (err) { console.error(...) } inside the push loop
CreateFailed(c, called) == [c EXCEPT !.run = called]

\* The configuration a step works on: the run, the table, the integration row,
\* the remote calendars.
Cfg(run, events, gs, cal) == [run |-> run, events |-> events, gs |-> gs, cal |-> cal]

\* SELECT ... WHERE googleEventId = gEvent.id, then one of the rows
Selected(c, g) ==
  LET found == {r \in BagToSet(c.events) : r.googleEventId = g.id} IN
  [c.run EXCEPT !.hasExisting = found # {},
                !.existing = IF found = {} THEN NoRef ELSE First(found),
                !.seen = @ \cup {g}]

\* worker: title, start or end differ
JobChanged(existing, g) ==
  \/ existing.title # Title(g)
  \/ existing.startTime # g.start
  \/ existing.endTime # g.end

\* lib: title, start, end or location differ
LibChanged(existing, g) ==
  \/ existing.title # Title(g)
  \/ existing.startTime # g.start
  \/ existing.endTime # g.end
  \/ existing.location # g.location

\* the update of the mirror found, or the insert of a new mirror
Mirror(c, g, changed) ==
  LET run == c.run
      popped == [run EXCEPT !.queue = Tail(@), !.pc = "select"]
      wrote == [popped EXCEPT !.written = @ \cup {g.id}] IN
  IF run.hasExisting
  THEN IF changed
       THEN [c EXCEPT !.run = wrote,
                      !.events = UpdateById(@, run.existing.id,
                                   [title |-> Title(g), startTime |-> g.start,
                                    endTime |-> g.end, location |-> g.location])]
       ELSE [c EXCEPT !.run = popped]
  ELSE [c EXCEPT !.run = wrote,
                 !.events = Insert(@, MirrorRow(g, FreshMirrorId(c.events)))]

\* UPDATE calendar_events SET googleEventId = res.data.id WHERE id = event.id
StoredId(c, nextPc) ==
  LET run == c.run IN
  [c EXCEPT !.events = UpdateById(@, run.event.id, [googleEventId |-> run.newId]),
            !.run = [run EXCEPT !.created = @ \cup {<<run.event.id, run.newId>>},
                                !.newId = None, !.pc = nextPc]]

\* the rows the worker pushes, whatever their googleEventId
toPushAll(events, t) ==
  {e \in BagToSet(events) : e.source = "ai_planned" /\ InHorizon(e.startTime, t)}

\* worker: the ai_planned rows without googleEventId that start in the horizon
toPush(events, t) ==
  {e \in BagToSet(events) :
     e.source = "ai_planned" /\ e.googleEventId = None /\ InHorizon(e.startTime, t)}

\* One step of runGoogleCalendarSync (google-calendar-sync.ts), from one await
\* to the next.
JobStep(c, t, in) ==
  LET run == c.run IN
  CASE run.pc = "start" ->
         LET r == runGoogleCalendarSyncClient(c.gs, t, in.refresh)
             looked == LookedUp(run, c.gs, r) IN
         [c EXCEPT !.gs = r.state,
                   !.run = IF r.token = None THEN [looked EXCEPT !.pc = "done"]
                           ELSE IF c.gs.config.joyCalendarId = None
                           THEN [looked EXCEPT !.pc = "migrate", !.joyCalendarId = "primary"]
                           ELSE [looked EXCEPT !.pc = "selectPush",
                                               !.joyCalendarId = c.gs.config.joyCalendarId]]
    [] run.pc = "migrate" ->
         \* calendarList.list, calendars.insert; config: { joyCalendarId }
         IF in.migrate
         THEN [c EXCEPT !.gs.config = [NoIntegration.config EXCEPT !.joyCalendarId = "joy"],
                        !.run = [Called(run, c.gs, t) EXCEPT !.pc = "selectPush",
                                                             !.joyCalendarId = "joy"]]
         ELSE [c EXCEPT !.run = [Called(run, c.gs, t) EXCEPT !.pc = "selectPush"]]
    [] run.pc = "selectPush" ->
         [c EXCEPT !.run = [run EXCEPT !.queue = SeqOf(toPush(c.events, t)), !.pc = "create"]]
    [] run.pc = "create" ->
         IF run.queue = <<>> THEN [c EXCEPT !.run = [run EXCEPT !.pc = "list"]]
         ELSE LET event == Head(run.queue)
                  id == FreshGoogleId(c.cal, c.events)
                  called == [Called(run, c.gs, t) EXCEPT !.creates = Append(@, event.id),
                                                        !.pushedLate = @ \/ run.listIssued,
                                                        !.queue = Tail(@)] IN
              IF CreateOk(in, event)
              THEN [c EXCEPT !.cal = @ \cup {RemoteCopy(event, run.joyCalendarId, id)},
                             !.run = [called EXCEPT !.event = event, !.newId = id,
                                                    !.pc = "storeId"]]
              ELSE CreateFailed(c, called)
    [] run.pc = "storeId" -> StoredId(c, "create")
    [] run.pc = "list" ->
         IF "primary" \in in.listFails
         THEN [c EXCEPT !.run = [Called(run, c.gs, t) EXCEPT !.listIssued = TRUE,
                                                             !.pc = "finish"]]
         ELSE [c EXCEPT !.run = [Called(run, c.gs, t) EXCEPT
                                   !.queue = SeqOf(Mirrored(ListEvents(c.cal, "primary", t))),
                                   !.listings = @ + 1, !.listIssued = TRUE,
                                   !.pc = "select"]]
    [] run.pc = "select" ->
         IF run.queue = <<>> THEN [c EXCEPT !.run = [run EXCEPT !.pc = "finish"]]
         ELSE [c EXCEPT !.run = [Selected(c, Head(run.queue)) EXCEPT !.pc = "write"]]
    [] run.pc = "write" ->
         Mirror(c, Head(run.queue), run.hasExisting /\ JobChanged(run.existing, Head(run.queue)))
    [] run.pc = "finish" ->
         [c EXCEPT !.gs.lastSyncAt = t, !.run = [run EXCEPT !.pc = "done"]]

\* getCategoryCalendarType: the events of the model have a work category
CalendarType == "work"

\* lib: getJoyCalendarId
getJoyCalendarId(config, type) ==
  IF type = "work" /\ config.joyWorkCalendarId # None THEN config.joyWorkCalendarId
  ELSE IF type = "personal" /\ config.joyPersonalCalendarId # None
  THEN config.joyPersonalCalendarId
  ELSE IF config.joyCalendarId # None THEN config.joyCalendarId
  ELSE "primary"

\* lib: getJoyCalendarIds
getJoyCalendarIds(config) ==
  LET dual == (IF config.joyWorkCalendarId # None THEN {config.joyWorkCalendarId} ELSE {})
                \cup (IF config.joyPersonalCalendarId # None
                      THEN {config.joyPersonalCalendarId} ELSE {}) IN
  IF dual # {} THEN dual
  ELSE IF config.joyCalendarId # None THEN {config.joyCalendarId}
  ELSE {"primary"}

\* createOrFindJoyCalendars, then config: {...config, joyWorkCalendarId, joyPersonalCalendarId}
WithJoyCalendars(config) ==
  [config EXCEPT !.joyWorkCalendarId = "joyWork", !.joyPersonalCalendarId = "joyPersonal"]

\* lib pushEventToGoogle up to the answer of events.insert; type is the
\* calendarType passed (None: not passed)
Pushed(c, event, type, t, in, failPc) ==
  LET r == getCalendarClient(c.gs, t, in.refresh)
      looked == LookedUp(c.run, c.gs, r)
      calendarId == getJoyCalendarId(r.state.config, type)
      id == FreshGoogleId(c.cal, c.events)
      called == [Called(looked, r.state, t) EXCEPT
                   !.creates = Append(@, event.id),
                   !.pushedLate = @ \/ c.run.listIssued] IN
  IF r.token = None THEN [c EXCEPT !.gs = r.state, !.run = [looked EXCEPT !.pc = failPc]]
  ELSE IF CreateOk(in, event)
  THEN [c EXCEPT !.gs = r.state,
                 !.cal = @ \cup {RemoteCopy(event, calendarId, id)},
                 !.run = [called EXCEPT !.event = event, !.newId = id, !.pc = "storeId"]]
  ELSE [c EXCEPT !.gs = r.state, !.run = [called EXCEPT !.pc = failPc]]

\* the rows fullSync pushes: ai_planned, in the horizon, without googleEventId
LibToPush(events, t) ==
  {e \in BagToSet(events) :
     e.source = "ai_planned" /\ InHorizon(e.startTime, t) /\ e.googleEventId = None}

\* One step of lib/google-calendar fullSync, pullExternalEvents included, from
\* one await to the next await on another party.
FullStep(c, t, in) ==
  LET run == c.run IN
  CASE run.pc = "start" ->
         LET config == c.gs.config
             hasDualCalendars == config.joyWorkCalendarId # None
                                 /\ config.joyPersonalCalendarId # None
             r == getCalendarClient(c.gs, t, in.refresh)
             looked == LookedUp(run, c.gs, r) IN
         IF hasDualCalendars THEN [c EXCEPT !.run = [run EXCEPT !.pc = "selectPush"]]
         ELSE IF r.token = None
         THEN [c EXCEPT !.gs = r.state, !.run = [looked EXCEPT !.pc = "selectPush"]]
         ELSE IF in.migrate
         THEN [c EXCEPT !.gs = [r.state EXCEPT !.config = WithJoyCalendars(config)],
                        !.run = [Called(looked, r.state, t) EXCEPT !.pc = "selectPush"]]
         ELSE [c EXCEPT !.gs = r.state,
                        !.run = [Called(looked, r.state, t) EXCEPT !.pc = "selectPush"]]
    [] run.pc = "selectPush" ->
         [c EXCEPT !.run = [run EXCEPT !.queue = SeqOf(LibToPush(c.events, t)), !.pc = "push"]]
    [] run.pc = "push" ->
         IF run.queue = <<>> THEN [c EXCEPT !.run = [run EXCEPT !.pc = "selectPushed"]]
         ELSE Pushed([c EXCEPT !.run.queue = Tail(@)], Head(run.queue), CalendarType, t, in, "push")
    [] run.pc = "storeId" -> StoredId(c, "push")
    [] run.pc = "selectPushed" ->
         LET pushedEvents == {e \in BagToSet(c.events) :
                                /\ e.source = "ai_planned"
                                /\ e.googleEventId # None
                                /\ InHorizon(e.startTime, t)}
             r == getCalendarClient(c.gs, t, in.refresh)
             looked == LookedUp(run, c.gs, r) IN
         [c EXCEPT !.gs = r.state,
                   !.run = IF r.token = None THEN [looked EXCEPT !.pc = "pull"]
                           ELSE [looked EXCEPT !.queue = SeqOf(pushedEvents),
                                               !.joyCalIds = getJoyCalendarIds(r.state.config),
                                               !.pc = "verify"]]
    [] run.pc = "verify" ->
         \* events.get in each Joy calendar: 404 or 410 in all of them, and the
         \* row is deleted; any other error counts as found
         IF run.queue = <<>> THEN [c EXCEPT !.run = [run EXCEPT !.pc = "pull"]]
         ELSE LET event == Head(run.queue)
                  found == \/ in.getFails
                           \/ \E g \in c.cal : /\ g.id = event.googleEventId
                                               /\ g.calendarId \in run.joyCalIds
                  called == [Called(run, c.gs, t) EXCEPT !.queue = Tail(@)] IN
              IF found THEN [c EXCEPT !.run = called]
              ELSE [c EXCEPT !.run = called, !.events = DeleteById(@, event.id)]
    [] run.pc = "pull" ->
         LET r == getCalendarClient(c.gs, t, in.refresh)
             looked == LookedUp(run, c.gs, r)
             config == r.state.config
             pullCalendarIds == IF config.workCalendarId # None
                                THEN <<"primary", config.workCalendarId>>
                                ELSE <<"primary">> IN
         [c EXCEPT !.gs = r.state,
                   !.run = IF r.token = None THEN [looked EXCEPT !.pc = "finish"]
                           ELSE [looked EXCEPT !.calendars = pullCalendarIds,
                                               !.listed = {}, !.pc = "list"]]
    [] run.pc = "list" ->
         IF run.calendars = <<>> THEN [c EXCEPT !.run = [run EXCEPT !.pc = "cleanup"]]
         ELSE IF Head(run.calendars) \in in.listFails
         THEN [c EXCEPT !.run = [Called(run, c.gs, t) EXCEPT !.listIssued = TRUE,
                                                             !.calendars = Tail(@)]]
         ELSE [c EXCEPT !.run = [Called(run, c.gs, t) EXCEPT
                  !.queue = SeqOf(Mirrored(ListEvents(c.cal, Head(run.calendars), t))),
                  !.listings = @ + 1, !.listIssued = TRUE,
                  !.pc = "select"]]
    [] run.pc = "select" ->
         IF run.queue = <<>>
         THEN [c EXCEPT !.run = [run EXCEPT !.calendars = Tail(@), !.pc = "list"]]
         ELSE [c EXCEPT !.run = [Selected(c, Head(run.queue)) EXCEPT
                                    !.listed = @ \cup {Head(run.queue).id}, !.pc = "write"]]
    [] run.pc = "write" ->
         Mirror(c, Head(run.queue), run.hasExisting /\ LibChanged(run.existing, Head(run.queue)))
    [] run.pc = "cleanup" ->
         LET joyBlockers == {r \in BagToSet(c.events) :
                               /\ r.source = "google_calendar"
                               /\ InHorizon(r.startTime, t)
                               /\ r.googleEventId # None}
             gone == {r \in joyBlockers : r.googleEventId \notin run.listed} IN
         [c EXCEPT !.events = @ (-) SetToBag(gone),
                   !.run = [run EXCEPT !.unlisted = gone,
                                       !.deleted = {r.googleEventId : r \in gone},
                                       !.pc = "finish"]]
    [] run.pc = "finish" ->
         [c EXCEPT !.gs.lastSyncAt = t, !.run = [run EXCEPT !.pc = "done"]]

\* the event the planner's create_calendar_event tool inserts
PlannedEvent(id, startTime) ==
  [id |-> id, source |-> "ai_planned", title |-> "Prep", startTime |-> startTime,
   endTime |-> startTime + 60 * 60, location |-> None, googleEventId |-> None]

\* One step of handleCreateCalendarEvent (lib/ai/tool-handlers.ts): the insert,
\* then the push when the calendar is connected; run.event is the event to
\* insert.
PlannerStep(c, t, in) ==
  LET run == c.run IN
  CASE run.pc = "start" ->
         [c EXCEPT !.events = Insert(@, run.event), !.run = [run EXCEPT !.pc = "push"]]
    [] run.pc = "push" ->
         IF c.gs.isActive THEN Pushed(c, run.event, None, t, in, "done")
         ELSE [c EXCEPT !.run = [run EXCEPT !.pc = "done"]]
    [] run.pc = "storeId" -> StoredId(c, "done")

\* the step of a run of any kind
Step(c, t, in) ==
  CASE c.run.kind = "job" -> JobStep(c, t, in)
    [] c.run.kind = "full" -> FullStep(c, t, in)
    [] c.run.kind = "planner" -> PlannerStep(c, t, in)

\* a run from where it is to its end, without another process in between
RECURSIVE RunToEnd(_, _, _)
RunToEnd(c, t, in) == IF c.run.pc = "done" THEN c ELSE RunToEnd(Step(c, t, in), t, in)

-----------------------------------------------------------------------------
(* The calendar sync, one run after the other: pushing, and pulling *)

LocalEventIds == {<<"e", 1>>, <<"e", 2>>}
\* 12:15 of the first day; the tenth day, past the horizon of the first
PlannedStarts == {44100, 9 * Day}
ExternalIds == {"x1"}
WorkCalendar == "work"

\* the remote events other people and the user create
External(calendarId, id, summary, location) ==
  [calendarId |-> calendarId, id |-> id, summary |-> summary, start |-> 36000,
   end |-> 39600, location |-> location, joyEventId |-> NoRef,
   timed |-> TRUE, status |-> "confirmed"]

ExternalSummaries == {"Dentist", ""}
ExternalLocations == {None, "Clinic"}

\* the tables and rows the calendar sync leaves alone
calOthers ==
  <<now, srState, tasks, syncJobs, planningJobs, biginDeals, biginState, runs, queues>>

\* what a run did with the token of a provider: the row before the run
\* (usable, expiring when, with a refresh token), the refresh calls, whether a
\* refresh failed, the provider API calls, and isActive after the run
Observed(provider, run, before, after, t) ==
  [provider |-> provider, path |-> run.kind, at |-> t,
   usableBefore |-> Usable(before), expBefore |-> before.tokenExpiresAt,
   hadRefreshToken |-> before.refreshToken # None,
   refreshCalls |-> run.refreshCalls, refreshFailed |-> run.refreshFailed,
   calls |-> run.calls, activeAfter |-> after.isActive]

\* what a completed run leaves for observation: what it did, the creations of
\* the run before it, and a bit that flips with every run
Completed(run, lookups) ==
  [kind |-> run.kind, n |-> 1 - lastRun.n,
   creates |-> run.creates, created |-> run.created,
   prevCreated |-> lastRun.created,
   seen |-> run.seen, written |-> run.written, deleted |-> run.deleted,
   unlisted |-> run.unlisted, listings |-> run.listings,
   listIssued |-> run.listIssued, pushedLate |-> run.pushedLate,
   answers |-> run.answers, returned |-> run.returned,
   lookups |-> lookups]

\* exchangeCodeForTokens: the tokens stored (tokens.refresh_token || null,
\* tokens.expiry_date or null), the config kept, the dual Joy calendars created
\* or found
GoogleConnect(migrate, refreshToken, hasExpiry) ==
  /\ googleState' =
       [googleState EXCEPT !.isActive = TRUE, !.accessToken = "granted",
                           !.refreshToken = refreshToken,
                           !.tokenExpiresAt = IF hasExpiry THEN now + ExpiresIn ELSE NoTime,
                           !.config = IF migrate THEN WithJoyCalendars(@) ELSE @]
  /\ UNCHANGED <<calOthers, calendarEvents, gcal, lastRun>>

\* lib disconnect
GoogleDisconnect ==
  /\ \E revoke \in RevokeOutcomes : googleState' = Disconnected(googleState, revoke)
  /\ UNCHANGED <<calOthers, calendarEvents, gcal, lastRun>>

\* lib setWorkCalendarId
setWorkCalendarId(workCalendarId) ==
  /\ googleState' = [googleState EXCEPT !.config.workCalendarId = workCalendarId]
  /\ UNCHANGED <<calOthers, calendarEvents, gcal, lastRun>>

\* the calendar's users add, edit and delete events
RemoteAdd(calendarId, id, summary, location) ==
  /\ \A g \in gcal : g.id = id => /\ g.calendarId # calendarId
                                   /\ g.summary = summary /\ g.location = location
  /\ gcal' = gcal \cup {External(calendarId, id, summary, location)}
  /\ UNCHANGED <<calOthers, calendarEvents, googleState, lastRun>>

RemoteEdit(id, summary, location) ==
  /\ \E g \in gcal : g.id = id /\ (g.summary # summary \/ g.location # location)
  /\ gcal' = {IF g.id = id THEN [g EXCEPT !.summary = summary, !.location = location] ELSE g :
                g \in gcal}
  /\ UNCHANGED <<calOthers, calendarEvents, googleState, lastRun>>

RemoteDelete(g) ==
  /\ g \in gcal
  /\ gcal' = gcal \ {g}
  /\ UNCHANGED <<calOthers, calendarEvents, googleState, lastRun>>

\* the event is cancelled, or restored; the listing still returns it
RemoteSetStatus(id, status) ==
  /\ \E g \in gcal : g.id = id /\ g.status # status
  /\ gcal' = {IF g.id = id THEN [g EXCEPT !.status = status] ELSE g : g \in gcal}
  /\ UNCHANGED <<calOthers, calendarEvents, googleState, lastRun>>

\* the event is made an all-day event (start.date, no start.dateTime), or a
\* timed one again
RemoteSetTimed(id, timed) ==
  /\ \E g \in gcal : g.id = id /\ g.timed # timed
  /\ gcal' = {IF g.id = id THEN [g EXCEPT !.timed = timed] ELSE g : g \in gcal}
  /\ UNCHANGED <<calOthers, calendarEvents, googleState, lastRun>>

\* the ids in use or left behind: a uuid is never given twice
UsedIds ==
  {r.id : r \in BagToSet(calendarEvents)} \cup {g.joyEventId : g \in gcal}

\* the planner creates an event (create_calendar_event)
handleCreateCalendarEvent(id, startTime, in) ==
  /\ id \notin UsedIds
  /\ LET c == RunToEnd(Cfg([NewRun("planner", "start") EXCEPT
                               !.event = PlannedEvent(id, startTime)],
                           calendarEvents, googleState, gcal), now, in) IN
       /\ calendarEvents' = c.events
       /\ googleState' = c.gs
       /\ gcal' = c.cal
  /\ UNCHANGED <<calOthers, lastRun>>

\* the scheduled job "google-calendar-sync" of the worker
runGoogleCalendarSync(in) ==
  /\ LET c == RunToEnd(Cfg(NewRun("job", "start"), calendarEvents, googleState, gcal),
                       now, in) IN
       /\ calendarEvents' = c.events
       /\ googleState' = c.gs
       /\ gcal' = c.cal
       /\ lastRun' = Completed(c.run, {Observed("google", c.run, googleState, c.gs, now)})
  /\ UNCHANGED calOthers

\* POST /api/integrations/google/sync, and the sync that follows the OAuth
\* callback: fullSync once connected
GoogleFullSync(in) ==
  /\ googleState.isActive
  /\ LET c == RunToEnd(Cfg(NewRun("full", "start"), calendarEvents, googleState, gcal),
                       now, in) IN
       /\ calendarEvents' = c.events
       /\ googleState' = c.gs
       /\ gcal' = c.cal
       /\ lastRun' = Completed(c.run, {Observed("google", c.run, googleState, c.gs, now)})
  /\ UNCHANGED calOthers

\* lib: getJoyCalendarIds, in the order of the array
JoyCalendarIdSeq(config) ==
  LET work == IF config.joyWorkCalendarId # None THEN <<config.joyWorkCalendarId>> ELSE <<>>
      personal == IF config.joyPersonalCalendarId # None
                  THEN <<config.joyPersonalCalendarId>> ELSE <<>>
      ids == work \o personal IN
  IF ids # <<>> THEN ids
  ELSE IF config.joyCalendarId # None THEN <<config.joyCalendarId>>
  ELSE <<"primary">>

\* the status codes events.delete answers with when the calendar does not hold
\* the event (404, 410) or refuses (500)
DeleteErrors == {404, 410, 500}

\* for (const calendarId of calendarIds) { try { events.delete; return true }
\* catch { ... } } return false: ids are the calendars still to try, n is
\* calendarIds.length, answers the status codes received so far
RECURSIVE DeleteIn(_, _, _, _, _, _)
DeleteIn(ids, n, googleEventId, cal, code, answers) ==
  IF ids = <<>> THEN [returned |-> FALSE, answers |-> answers, cal |-> cal]
  ELSE LET held == {g \in cal : g.id = googleEventId /\ g.calendarId = Head(ids)} IN
       IF held # {}
       THEN [returned |-> TRUE, answers |-> Append(answers, 204), cal |-> cal \ held]
       ELSE IF code = 404 /\ n > 1
       THEN DeleteIn(Tail(ids), n, googleEventId, cal, code, Append(answers, code))
       ELSE [returned |-> code = 404 \/ code = 410, answers |-> Append(answers, code),
             cal |-> cal]

\* lib deleteGoogleEvent(googleEventId) without a calendar type: the routes and
\* the planner call it for an event whose row holds googleEventId; a calendar
\* that does not hold the event answers with code
deleteGoogleEvent(googleEventId, code, refresh) ==
  /\ LET r == getCalendarClient(googleState, now, refresh)
         looked == LookedUp(NewRun("delete", "start"), googleState, r)
         calendarIds == JoyCalendarIdSeq(r.state.config)
         d == IF r.token = None
              THEN [returned |-> FALSE, answers |-> <<>>, cal |-> gcal]
              ELSE DeleteIn(calendarIds, Len(calendarIds), googleEventId, gcal, code, <<>>)
         run == [(IF r.token = None THEN looked ELSE Called(looked, r.state, now))
                   EXCEPT !.answers = d.answers, !.returned = d.returned, !.pc = "done"] IN
       /\ googleState' = r.state
       /\ gcal' = d.cal
       /\ lastRun' = Completed(run, {Observed("google", run, googleState, r.state, now)})
  /\ UNCHANGED <<calOthers, calendarEvents>>

\* the outcomes of the calls of a run: all well, or one kind of call failing
Failing(k, v) == [AllOk EXCEPT ![k] = v]

PushInputs == {AllOk, Failing("migrate", FALSE), Failing("create", FALSE),
               Failing("createFails", {<<"e", 1>>}), Failing("getFails", TRUE)}

PullInputs == {AllOk, Failing("migrate", FALSE), Failing("listFails", {"primary"}),
               Failing("listFails", {WorkCalendar})}

\* Pushing: the planner's events, the Joy calendars and the runs
PushNext ==
  \/ \E migrate \in BOOLEAN : GoogleConnect(migrate, "refresh", TRUE)
  \/ GoogleDisconnect
  \/ \E g \in gcal : RemoteDelete(g)
  \/ \E id \in LocalEventIds, startTime \in PlannedStarts, in \in PushInputs :
        handleCreateCalendarEvent(id, startTime, in)
  \/ \E in \in PushInputs : runGoogleCalendarSync(in)
  \/ \E in \in PushInputs : GoogleFullSync(in)

PushSpec == Init /\ [][PushNext]_vars

\* Pulling: the events of the primary and the work calendar, and the runs
PullNext ==
  \/ \E migrate \in BOOLEAN : GoogleConnect(migrate, "refresh", TRUE)
  \/ GoogleDisconnect
  \/ \E w \in {WorkCalendar, None} : setWorkCalendarId(w)
  \/ \E c \in {"primary", WorkCalendar}, id \in ExternalIds,
        s \in ExternalSummaries, l \in ExternalLocations : RemoteAdd(c, id, s, l)
  \/ \E id \in ExternalIds, s \in ExternalSummaries, l \in ExternalLocations :
        RemoteEdit(id, s, l)
  \/ \E g \in gcal : RemoteDelete(g)
  \/ \E in \in PullInputs : runGoogleCalendarSync(in)
  \/ \E in \in PullInputs : GoogleFullSync(in)

PullSpec == Init /\ [][PullNext]_vars

\* the remote ids the rows hold
PushedIds == {r.googleEventId : r \in BagToSet(calendarEvents)} \ {None}

\* Deleting: the planner's events pushed into the legacy calendar, the dual Joy
\* calendars or the primary calendar, deleted remotely by the user or by
\* deleteGoogleEvent
DeleteNext ==
  \/ \E migrate \in BOOLEAN : GoogleConnect(migrate, "refresh", TRUE)
  \/ GoogleDisconnect
  \/ \E g \in gcal : RemoteDelete(g)
  \/ \E id \in LocalEventIds, in \in {AllOk, Failing("migrate", FALSE)} :
        handleCreateCalendarEvent(id, 44100, in)
  \/ \E googleEventId \in PushedIds, code \in DeleteErrors, refresh \in GoogleRefreshOutcomes :
        deleteGoogleEvent(googleEventId, code, refresh)

DeleteSpec == Init /\ [][DeleteNext]_vars

\* What a pull skips: an event of the primary calendar that is edited,
\* cancelled, restored, made all-day or timed between the runs, and an event
\* the planner pushed
SkipNext ==
  \/ GoogleConnect(FALSE, "refresh", TRUE)
  \/ \E id \in ExternalIds, s \in ExternalSummaries : RemoteAdd("primary", id, s, None)
  \/ \E id \in ExternalIds, s \in ExternalSummaries : RemoteEdit(id, s, None)
  \/ \E id \in ExternalIds \cup {g.id : g \in gcal}, status \in {"confirmed", "cancelled"} :
        RemoteSetStatus(id, status)
  \/ \E id \in ExternalIds \cup {g.id : g \in gcal}, timed \in BOOLEAN :
        RemoteSetTimed(id, timed)
  \/ handleCreateCalendarEvent(<<"e", 1>>, 44100, AllOk)
  \/ runGoogleCalendarSync(AllOk)
  \/ GoogleFullSync(AllOk)

SkipSpec == Init /\ [][SkipNext]_vars

-----------------------------------------------------------------------------
(* The calendar sync, the runs of the worker and of the web process interleaved *)

\* the worker's scheduled job, a fullSync request and a planner request
RaceRuns ==
  [worker |-> NewRun("job", "start"),
   web |-> NewRun("full", "start"),
   planner |-> [NewRun("planner", "start") EXCEPT !.event = PlannedEvent(<<"e", 2>>, 44100)]]

\* Connected, the work calendar chosen; an event planned while the calendar was
\* not connected; a remote event that the primary and the work calendar both
\* list; the three runs about to start.
RaceInit ==
  /\ now = 0
  /\ srState = [isActive |-> FALSE, accessToken |-> None, refreshToken |-> None,
                tokenExpiresAt |-> NoTime, syncCursor |-> NoTime, lastSyncAt |-> NoTime,
                config |-> [callbackTrigger |-> <<>>]]
  /\ tasks = EmptyBag
  /\ syncJobs = <<>>
  /\ planningJobs = <<>>
  /\ biginDeals = EmptyBag
  /\ biginState = NoIntegration
  /\ lastRun = NoRun
  /\ queues = NoQueues
  /\ googleState = [NoIntegration EXCEPT
        !.isActive = TRUE, !.accessToken = "granted", !.refreshToken = "refresh",
        !.tokenExpiresAt = ExpiresIn,
        !.config = [WithJoyCalendars(@) EXCEPT !.workCalendarId = WorkCalendar]]
  /\ calendarEvents = SetToBag({PlannedEvent(<<"e", 1>>, 44100)})
  /\ gcal = {External("primary", "x1", "Dentist", None),
             External(WorkCalendar, "x1", "Dentist", None)}
  /\ runs = RaceRuns

\* the next step of the run of process p, every call succeeding
RunStep(p) ==
  /\ runs[p].pc # "done"
  /\ LET c == Step(Cfg(runs[p], calendarEvents, googleState, gcal), now, AllOk) IN
       /\ runs' = [runs EXCEPT ![p] = c.run]
       /\ calendarEvents' = c.events
       /\ googleState' = c.gs
       /\ gcal' = c.cal
  /\ UNCHANGED <<now, srState, tasks, syncJobs, planningJobs, biginDeals, biginState, lastRun,
                 queues>>

RaceNext ==
  \/ RunStep("worker")
  \/ RunStep("web")
  \/ RunStep("planner")

RaceSpec == RaceInit /\ [][RaceNext]_vars

-----------------------------------------------------------------------------
(* The CRM sync: worker job runBiginSync, lib/bigin fullSync *)
(*                                                                         *)
(* In the specifications of this part a tasks row is                       *)
(* [externalId, externalSource, status, title].                            *)

\* the deals and the tasks GET /Deals and GET /Tasks return
Deal(id, stage) == [id |-> id, Stage |-> stage]
BiginTask(id, status) == [id |-> id, Status |-> status]

DealLists == {<<>>, <<Deal("d1", "Proposal")>>, <<Deal("d1", "Closed Won")>>}
BiginTaskLists == {<<>>, <<BiginTask("t1", "Open")>>, <<BiginTask("t1", "Completed")>>}

\* the row of a deal (title `${deal.Stage}: ${deal.Deal_Name}`) or of a CRM task
BiginRow(externalId, title) ==
  [externalId |-> externalId, externalSource |-> "bigin", status |-> "inbox",
   completedAt |-> NoTime, title |-> title]

\* how the calls of a CRM sync run end, and what the CRM returns
\* writeFails names the deals whose local write the database rejects
BiginOk ==
  [refresh |-> "ok", fetchOk |-> TRUE, deals |-> <<Deal("d1", "Proposal")>>,
   biginTasks |-> <<BiginTask("t1", "Open")>>, writeFails |-> {}]

\* res.ok of fetch
ResOk(status) == status \in 200..299

\* The configuration a step of a CRM sync works on
BiginCfg(run, ts, bs) == [run |-> run, tasks |-> ts, bs |-> bs]

\* SELECT ... WHERE externalId = ... AND externalSource = 'bigin', one of the rows
SelectedTask(c, externalId, nextPc) ==
  LET found == FindTask(c.tasks, externalId, "bigin") IN
  [c EXCEPT !.run = [c.run EXCEPT !.hasExisting = found # {},
                                  !.existing = IF found = {} THEN NoRef ELSE First(found),
                                  !.pc = nextPc]]

\* an update that writes the row as a new one, status and completedAt
\* included: what C39 excludes
RetitledAsNew(ts, existing, title) ==
  IF CopiesIn(existing, ts) = 0 THEN ts
  ELSE Update(ts, existing,
         [existing EXCEPT !.title = title, !.status = "inbox", !.completedAt = NoTime])

\* UPDATE tasks SET title = ... WHERE id = existing.id
Retitled(ts, existing, title) ==
  IF CopiesIn(existing, ts) = 0 THEN ts
  ELSE Update(ts, existing, [existing EXCEPT !.title = title])

ClosedStages == {"Closed Won", "Closed Lost"}

\* an upsert that imports closed deals as well: what C30 excludes
UpsertedDealWhateverStage(c, deal, nextPc) ==
  LET run == [c.run EXCEPT !.queue = Tail(@), !.pc = nextPc] IN
  IF c.run.hasExisting
  THEN [c EXCEPT !.run = run, !.tasks = Retitled(@, c.run.existing, deal.Stage)]
  ELSE [c EXCEPT !.run = [run EXCEPT !.written = @ \cup {deal.id}],
                 !.tasks = Insert(@, BiginRow(ExternalId("", deal.id), deal.Stage))]

\* if (existing) update else insert, for a deal; closed deals are not imported
UpsertedDeal(c, deal, nextPc) ==
  LET run == [c.run EXCEPT !.queue = Tail(@), !.pc = nextPc] IN
  IF c.run.hasExisting
  THEN [c EXCEPT !.run = run, !.tasks = Retitled(@, c.run.existing, deal.Stage)]
  ELSE IF deal.Stage \in ClosedStages THEN [c EXCEPT !.run = run]
  ELSE [c EXCEPT !.run = [run EXCEPT !.written = @ \cup {deal.id}],
                 !.tasks = Insert(@, BiginRow(ExternalId("", deal.id), deal.Stage))]

\* if (existing) update else insert, for a task of the CRM
UpsertedBiginTask(c, bt, nextPc) ==
  LET run == [c.run EXCEPT !.queue = Tail(@), !.pc = nextPc] IN
  IF c.run.hasExisting
  THEN [c EXCEPT !.run = run, !.tasks = Retitled(@, c.run.existing, "Subject")]
  ELSE [c EXCEPT !.run = [run EXCEPT !.written = @ \cup {bt.id}],
                 !.tasks = Insert(@, BiginRow(ExternalId("task", bt.id), "Subject"))]

\* the deal's update or insert is sent to the database and rejected
DealWriteRejected(c, in, deal) ==
  /\ deal.id \in in.writeFails
  /\ c.run.hasExisting \/ deal.Stage \notin ClosedStages

\* catch (err) around the fetch and the whole loop over the deals: the rest
\* of the list is dropped
DealSyncError(c, nextPc) ==
  [c EXCEPT !.run = [c.run EXCEPT !.queue = <<>>, !.pc = nextPc]]

\* the tasks of the CRM a sync visits: not the completed ones
OpenTasks(bts) == SelectSeq(bts, LAMBDA bt : bt.Status # "Completed")

\* the loop over the deals, then the loop over the CRM's tasks: common to the
\* worker job and lib; afterTasks is the step that follows
BiginLoops(c, in, afterTasks) ==
  LET run == c.run IN
  CASE run.pc = "selectDeal" ->
         IF run.queue = <<>> THEN [c EXCEPT !.run = [run EXCEPT !.pc = "tasks"]]
         ELSE SelectedTask(c, ExternalId("", Head(run.queue).id), "writeDeal")
    [] run.pc = "writeDeal" ->
         IF DealWriteRejected(c, in, Head(run.queue)) THEN DealSyncError(c, "tasks")
         ELSE UpsertedDeal(c, Head(run.queue), "selectDeal")
    [] run.pc = "selectTask" ->
         IF run.queue = <<>> THEN [c EXCEPT !.run = [run EXCEPT !.pc = afterTasks]]
         ELSE SelectedTask(c, ExternalId("task", Head(run.queue).id), "writeTask")
    [] run.pc = "writeTask" -> UpsertedBiginTask(c, Head(run.queue), "selectTask")

\* UPDATE integration_state SET lastSyncAt, syncCursor
BiginFinished(c, t) ==
  [c EXCEPT !.bs.lastSyncAt = t, !.bs.syncCursor = t,
            !.run = [c.run EXCEPT !.pc = "done"]]

\* One step of the worker's runBiginSync, from one await to the next
BiginJobStep(c, t, in) ==
  LET run == c.run IN
  CASE run.pc = "start" ->
         LET r == runBiginSyncToken(c.bs, t, in.refresh)
             looked == LookedUp(run, c.bs, r) IN
         [c EXCEPT !.bs = r.state,
                   !.run = [looked EXCEPT !.pc = IF r.token = None THEN "done" ELSE "deals"]]
    [] run.pc = "deals" ->
         [c EXCEPT !.run = [Called(run, c.bs, t) EXCEPT
                              !.queue = IF in.fetchOk THEN in.deals ELSE <<>>,
                              !.pc = IF in.fetchOk THEN "selectDeal" ELSE "tasks"]]
    [] run.pc = "tasks" ->
         [c EXCEPT !.run = [Called(run, c.bs, t) EXCEPT
                              !.queue = IF in.fetchOk THEN OpenTasks(in.biginTasks) ELSE <<>>,
                              !.pc = IF in.fetchOk THEN "selectTask" ELSE "finish"]]
    [] run.pc = "finish" -> BiginFinished(c, t)
    [] OTHER -> BiginLoops(c, in, "finish")

\* lib biginFetch inside syncDeals, syncBiginTasks, syncContacts: without a
\* token it throws and the function's catch ends the function
BiginFetched(c, t, in, items, okPc, failPc) ==
  LET r == getAccessToken(c.bs, t, in.refresh)
      looked == LookedUp(c.run, c.bs, r) IN
  IF r.token = None THEN [c EXCEPT !.bs = r.state, !.run = [looked EXCEPT !.pc = failPc]]
  ELSE [c EXCEPT !.bs = r.state,
                 !.run = [Called(looked, r.state, t) EXCEPT
                            !.queue = IF in.fetchOk THEN items ELSE <<>>,
                            !.pc = IF in.fetchOk THEN okPc ELSE failPc]]

\* One step of lib/bigin fullSync (syncDeals, syncBiginTasks, syncContacts, the
\* sync timestamps), from one await to the next await on another party.  The
\* contact sync writes phone and location only.
BiginFullStep(c, t, in) ==
  LET run == c.run IN
  CASE run.pc = "start" -> BiginFetched(c, t, in, in.deals, "selectDeal", "tasks")
    [] run.pc = "tasks" ->
         BiginFetched(c, t, in, OpenTasks(in.biginTasks), "selectTask", "contacts")
    [] run.pc = "contacts" -> BiginFetched(c, t, in, <<>>, "finish", "finish")
    [] run.pc = "finish" -> BiginFinished(c, t)
    [] OTHER -> BiginLoops(c, in, "contacts")

BiginStep(c, t, in) ==
  CASE c.run.kind = "biginJob" -> BiginJobStep(c, t, in)
    [] c.run.kind = "biginFull" -> BiginFullStep(c, t, in)

RECURSIVE BiginRunToEnd(_, _, _)
BiginRunToEnd(c, t, in) ==
  IF c.run.pc = "done" THEN c ELSE BiginRunToEnd(BiginStep(c, t, in), t, in)

-----------------------------------------------------------------------------
(* The CRM sync, the run of the worker and a run of the web process interleaved *)

\* the worker's scheduled job and a fullSync request (webhook, manual sync or
\* the sync after the OAuth callback)
TaskRaceRuns ==
  [worker |-> NewRun("biginJob", "start"), web |-> NewRun("biginFull", "start")]

\* the CRM connected, its token fresh, no row of its deals and tasks yet
TaskRaceInit ==
  /\ now = 0
  /\ srState = [isActive |-> FALSE, accessToken |-> None, refreshToken |-> None,
                tokenExpiresAt |-> NoTime, syncCursor |-> NoTime, lastSyncAt |-> NoTime,
                config |-> [callbackTrigger |-> <<>>]]
  /\ tasks = EmptyBag
  /\ calendarEvents = EmptyBag
  /\ syncJobs = <<>>
  /\ planningJobs = <<>>
  /\ biginDeals = EmptyBag
  /\ googleState = NoIntegration
  /\ gcal = {}
  /\ lastRun = NoRun
  /\ queues = NoQueues
  /\ biginState = [NoIntegration EXCEPT
        !.isActive = TRUE, !.accessToken = "granted", !.refreshToken = "refresh",
        !.tokenExpiresAt = ExpiresIn]
  /\ runs = TaskRaceRuns

\* the next step of the CRM sync of process p, every call succeeding
BiginRunStep(p) ==
  /\ runs[p].pc # "done"
  /\ LET c == BiginStep(BiginCfg(runs[p], tasks, biginState), now, BiginOk) IN
       /\ runs' = [runs EXCEPT ![p] = c.run]
       /\ tasks' = c.tasks
       /\ biginState' = c.bs
  /\ UNCHANGED <<now, srState, calendarEvents, syncJobs, planningJobs, biginDeals,
                 googleState, gcal, lastRun, queues>>

TaskRaceNext ==
  \/ BiginRunStep("worker")
  \/ BiginRunStep("web")

TaskRaceSpec == TaskRaceInit /\ [][TaskRaceNext]_vars

-----------------------------------------------------------------------------
(* The token paths: every run that looks a provider's token up, run whole, *)
(* with the clock moving around the expiry of the tokens                  *)

\* the instants at which runs start: 10 minutes, 5 minutes and 4 minutes
\* before the expiry of a token granted at 0
TenMinutesEarly == ExpiresIn - 10 * 60
TokenTimes == {TenMinutesEarly, ExpiresIn - 5 * 60, ExpiresIn - 4 * 60}

TokenTick ==
  /\ \E t \in TokenTimes : t > now /\ now' = t
  /\ UNCHANGED <<srState, tasks, calendarEvents, syncJobs, planningJobs, biginDeals, syncVars>>

\* lib/bigin disconnect
BiginDisconnect ==
  /\ \E revoke \in RevokeOutcomes : biginState' = Disconnected(biginState, revoke)
  /\ UNCHANGED <<now, srState, tasks, calendarEvents, syncJobs, planningJobs, biginDeals,
                 googleState, gcal, runs, lastRun, queues>>

\* the scheduled job "bigin-sync" of the worker (kind "biginJob"), and lib
\* fullSync as the webhook and the manual sync start it (kind "biginFull")
BiginSync(kind, in) ==
  /\ LET c == BiginRunToEnd(BiginCfg(NewRun(kind, "start"), tasks, biginState), now, in) IN
       /\ tasks' = c.tasks
       /\ biginState' = c.bs
       /\ lastRun' = Completed(c.run, {Observed("bigin", c.run, biginState, c.bs, now)})
  /\ UNCHANGED <<now, srState, calendarEvents, syncJobs, planningJobs, biginDeals,
                 googleState, gcal, runs, queues>>

\* the token lookup of a saga step and the provider calls that follow it
SagaLookup(before, r, t) ==
  LET looked == LookedUp(NewRun("saga", "start"), before, r) IN
  IF r.token = None THEN looked ELSE Called(looked, r.state, t)

\* The sync worker processing a due "callback-workflow" job, the token lookups
\* of the handler included: getBiginToken in step 1 of a first attempt, the
\* calendar client of the live lookup when no local event matches.  The remote
\* calendars hold no event of the lead.
SagaWorkerWithTokens(j, in) ==
  /\ Due(j)
  /\ syncJobs[j].name = "callback-workflow"
  /\ LET job == syncJobs[j]
         first == job.attemptsMade = 0
         rb == getBiginToken(biginState, now, in.refreshBigin)
         deal == IF rb.threw THEN "network_error"
                 ELSE IF rb.token = None THEN "not_connected" ELSE in.deal
         s2 == createProposalTask(job.data.lead, job.data.proposalPrepMinutes, tasks,
                                  in.insertOk)
         live == /\ ~(first /\ rb.threw)
                 /\ ~s2.threw
                 /\ LocalMatches(job.data.lead, calendarEvents, now) = {}
         rg == findMatchingAppointmentClient(googleState, now, in.refreshGoogle)
         r == runCallbackWorkflow(job, tasks, calendarEvents, biginDeals, now,
                                  [deal |-> deal, insertOk |-> in.insertOk,
                                   remote |-> NoTime, writes |-> in.writes])
     IN /\ tasks' = r.tasks
        /\ calendarEvents' = r.calendarEvents
        /\ biginDeals' = r.biginDeals
        /\ syncJobs' = [syncJobs EXCEPT ![j] = Settle(job, r)]
        /\ biginState' = IF first THEN rb.state ELSE biginState
        /\ googleState' = IF live THEN rg.state ELSE googleState
        /\ lastRun' =
             Completed(NewRun("saga", "done"),
               (IF first
                THEN {Observed("bigin", SagaLookup(biginState, rb, now),
                               biginState, rb.state, now)}
                ELSE {})
               \cup
               (IF live
                THEN {Observed("google", SagaLookup(googleState, rg, now),
                               googleState, rg.state, now)}
                ELSE {}))
  /\ UNCHANGED <<now, srState, planningJobs, gcal, runs, queues>>

\* the outcomes of the calls of a run of the saga
SagaTokenInputs ==
  [refreshBigin : RefreshOutcomes, refreshGoogle : GoogleRefreshOutcomes,
   deal : {"created", "rejected"}, insertOk : {TRUE}, writes : {"ok"}]

\* the outcomes of the calls of a CRM sync run; the CRM holds no deal and no task
BiginTokenInputs ==
  [refresh : RefreshOutcomes, fetchOk : {TRUE}, deals : {<<>>}, biginTasks : {<<>>},
   writeFails : {{}}]

\* the outcomes of the calls of a calendar sync run
GoogleTokenInputs == { Failing("refresh", o) : o \in GoogleRefreshOutcomes }

\* lead 42 as a callback lead without an appointment
Lead42 ==
  [id |-> "42", statusName |-> "Callback", appointmentDate |-> FALSE,
   appointmentTime |-> NoTime, customFields |-> [f \in CustomFieldNames |-> ""]]

Synced42 ==
  SyncLead([tasks |-> EmptyBag, calendarEvents |-> EmptyBag, syncJobs |-> <<>>,
            newTasks |-> 0, newAppointments |-> 0],
           Lead42, [callbackTrigger |-> StatusTrigger], TRUE, 0)

\* the row of a provider after its OAuth callback at 0 (exchangeCodeForTokens),
\* the answer with or without a refresh token and an expiry
Granted(refreshToken, hasExpiry) ==
  [NoIntegration EXCEPT
     !.isActive = TRUE, !.accessToken = "granted", !.refreshToken = refreshToken,
     !.tokenExpiresAt = IF hasExpiry THEN ExpiresIn ELSE NoTime]

\* The start of the token runs: one lead sync has seen lead 42 as a callback
\* lead and enqueued its saga job; the CRM or the calendar was connected at 0,
\* fifty minutes ago
\* (the CRM's expiry is always stored: data.expires_in || 3600; the Joy
\* calendars are created).
TokenInit ==
  /\ now = TenMinutesEarly
  /\ srState = [isActive |-> TRUE, accessToken |-> "token", refreshToken |-> None,
                tokenExpiresAt |-> NoTime, syncCursor |-> 0, lastSyncAt |-> 0,
                config |-> [callbackTrigger |-> StatusTrigger]]
  /\ tasks = Synced42.tasks
  /\ calendarEvents = Synced42.calendarEvents
  /\ syncJobs = Synced42.syncJobs
  /\ planningJobs = <<>>
  /\ biginDeals = EmptyBag
  /\ \/ /\ \E refreshToken \in {"refresh", None} :
             biginState = Granted(refreshToken, TRUE)
        /\ googleState = NoIntegration
     \/ /\ biginState = NoIntegration
        /\ \E refreshToken \in {"refresh", None}, hasExpiry \in BOOLEAN :
             googleState = [Granted(refreshToken, hasExpiry) EXCEPT
                              !.config = WithJoyCalendars(@)]
  /\ gcal = {}
  /\ runs = [p \in {} |-> NoRun]
  /\ lastRun = NoRun
  /\ queues = NoQueues

TokenNext ==
  \/ TokenTick
  \/ BiginDisconnect
  \/ GoogleDisconnect
  \/ \E kind \in {"biginJob", "biginFull"}, in \in BiginTokenInputs : BiginSync(kind, in)
  \/ \E in \in GoogleTokenInputs : runGoogleCalendarSync(in)
  \/ \E in \in GoogleTokenInputs : GoogleFullSync(in)
  \/ \E j \in DOMAIN syncJobs : \E in \in SagaTokenInputs : SagaWorkerWithTokens(j, in)

TokenSpec == TokenInit /\ [][TokenNext]_vars

-----------------------------------------------------------------------------
(* The CRM sync runs interleaved with a disconnect of the web process *)

DisconnectRaceNext ==
  \/ BiginRunStep("worker")
  \/ BiginRunStep("web")
  \/ BiginDisconnect

DisconnectRaceSpec == TaskRaceInit /\ [][DisconnectRaceNext]_vars

-----------------------------------------------------------------------------
(* Connecting and disconnecting the three providers, with a sync in between *)

\* lib/bigin exchangeCodeForTokens: the row upserted; an answer without
\* refresh_token keeps the stored one
BiginConnect(refreshToken) ==
  /\ biginState' =
       [biginState EXCEPT !.isActive = TRUE, !.accessToken = "granted",
                          !.refreshToken = IF refreshToken = None THEN @ ELSE refreshToken,
                          !.tokenExpiresAt = now + ExpiresIn]
  /\ UNCHANGED <<now, srState, tasks, calendarEvents, syncJobs, planningJobs, biginDeals,
                 googleState, gcal, runs, lastRun, queues>>

ConnectNext ==
  \/ \E authOk \in BOOLEAN : Connect(authOk)
  \/ Disconnect
  \/ \E redisOk \in BOOLEAN : runSalesRabbitSync(<<>>, redisOk)
  \/ \E refreshToken \in {"refresh", None} : BiginConnect(refreshToken)
  \/ BiginDisconnect
  \/ \E kind \in {"biginJob", "biginFull"}, in \in BiginTokenInputs : BiginSync(kind, in)
  \/ \E migrate \in BOOLEAN, refreshToken \in {"refresh", None}, hasExpiry \in BOOLEAN :
        GoogleConnect(migrate, refreshToken, hasExpiry)
  \/ GoogleDisconnect
  \/ \E in \in GoogleTokenInputs : runGoogleCalendarSync(in)

ConnectSpec == Init /\ [][ConnectNext]_vars

-----------------------------------------------------------------------------
(* The worker process: src/worker/index.ts.  Its two queues, the repeatable *)
(* schedules and the two workers that execute the jobs                      *)

\* the jobs a queue holds waiting, at most
MaxWaiting == 2

\* setupSchedules: the repeat patterns by queue and job name
Schedule ==
  [planning |-> {[name |-> "morning-briefing", pattern |-> "0 6 * * *"],
                 [name |-> "evening-review", pattern |-> "0 20 * * *"],
                 [name |-> "weekly-plan", pattern |-> "0 18 * * 0"]},
   sync |-> {[name |-> "google-calendar-sync", pattern |-> "*/30 * * * *"],
             [name |-> "bigin-sync", pattern |-> "*/15 * * * *"],
             [name |-> "salesrabbit-sync", pattern |-> "7,22,37,52 * * * *"],
             [name |-> "grocery-cleanup", pattern |-> "45 * * * *"]}]

QueueNames == {"planning", "sync"}

\* registrations an earlier deployment left in Redis under other patterns
StaleSchedule ==
  [planning |-> {[name |-> "morning-briefing", pattern |-> "0 7 * * *"]},
   sync |-> {[name |-> "bigin-sync", pattern |-> "*/5 * * * *"]}]

\* for (const job of existing) await queue.removeRepeatableByKey(job.key)
RemoveRepeatables(repeat, existing) == {r \in repeat : r \notin existing}

\* the schedule added to what is registered, nothing removed: what C22 excludes
RegisteredKeepingExisting(repeat, q) == repeat \cup Schedule[q]

\* setupSchedules on one queue: the registrations listed and removed, then one
\* queue.add per job; an add under a registered name and pattern yields the
\* registered key
Registered(repeat, q) == RemoveRepeatables(repeat, repeat) \cup Schedule[q]

\* setupSchedules(); the commands wait for Redis (maxRetriesPerRequest: null)
setupSchedules ==
  /\ queues' = [queues EXCEPT !.repeat = [q \in QueueNames |-> Registered(@[q], q)],
                              !.scheduled = TRUE]
  /\ UNCHANGED <<now, srState, tasks, calendarEvents, syncJobs, planningJobs, biginDeals,
                 googleState, biginState, gcal, runs, lastRun>>

\* the names of a sequence of job names, one per registration in rs
RECURSIVE Ticks(_)
Ticks(rs) ==
  IF rs = {} THEN <<>>
  ELSE LET r == CHOOSE x \in rs : TRUE IN <<r.name>> \o Ticks(rs \ {r})

\* A cron instant of job `name` on queue q: every registration of that name
\* yields its job
CronInstant(q, name) ==
  LET rs == {r \in queues.repeat[q] : r.name = name} IN
  /\ rs # {}
  /\ Len(queues.wait[q]) + Cardinality(rs) <= MaxWaiting
  /\ queues' = [queues EXCEPT !.wait[q] = @ \o Ticks(rs),
                              !.ticked = Cardinality(rs)]
  /\ UNCHANGED <<now, srState, tasks, calendarEvents, syncJobs, planningJobs, biginDeals,
                 googleState, biginState, gcal, runs, lastRun>>

\* salesrabbit-sync: planningQueue.add("replan", ...)
ReplanRequested ==
  /\ Len(planningJobs) < MaxWaiting
  /\ planningJobs' = Append(planningJobs, ReplanJob)
  /\ UNCHANGED <<now, srState, tasks, calendarEvents, syncJobs, biginDeals, syncVars>>

\* new Worker(name, processor, opts): the options given
WorkerOptions ==
  [planning |-> [concurrency |-> 1], sync |-> [c \in {} |-> 0]]

\* opts.concurrency, 1 when the option is absent (the library's default)
Concurrency(q) ==
  IF "concurrency" \in DOMAIN WorkerOptions[q] THEN WorkerOptions[q].concurrency ELSE 1

\* a worker taking jobs whatever it is executing: what C23 excludes
AlwaysFreeSlot(active, q) == TRUE

\* the worker of q fetches a next job while it executes fewer than its concurrency
HasFreeSlot(active, q) == BagCardinality(active[q]) < Concurrency(q)

\* the worker of q starts the repeat job that waits first
WorkerStart(q) ==
  /\ queues.wait[q] # <<>>
  /\ HasFreeSlot(queues.active, q)
  /\ queues' = [queues EXCEPT !.wait[q] = Tail(@),
                              !.active[q] = @ (+) SetToBag({Head(queues.wait[q])})]
  /\ UNCHANGED <<now, srState, tasks, calendarEvents, syncJobs, planningJobs, biginDeals,
                 googleState, biginState, gcal, runs, lastRun>>

\* the planning worker starts the on-demand job that waits first
WorkerStartReplan ==
  /\ planningJobs # <<>>
  /\ HasFreeSlot(queues.active, "planning")
  /\ planningJobs' = Tail(planningJobs)
  /\ queues' = [queues EXCEPT !.active.planning = @ (+) SetToBag({Head(planningJobs).name})]
  /\ UNCHANGED <<now, srState, tasks, calendarEvents, syncJobs, biginDeals,
                 googleState, biginState, gcal, runs, lastRun>>

Finished(q, name) == [queues EXCEPT !.active[q] = @ (-) SetToBag({name})]

\* The processor of the planning worker returns: runMorningBriefing,
\* runEveningReview, runWeeklyPlan.  What the planner writes is outside this
\* specification.
PlanningFinish(name) ==
  /\ BagIn(name, queues.active.planning)
  /\ queues' = Finished("planning", name)
  /\ UNCHANGED <<now, srState, tasks, calendarEvents, syncJobs, planningJobs, biginDeals,
                 googleState, biginState, gcal, runs, lastRun>>

\* The processor of the sync worker returns from runBiginSync: until then the
\* job waits for the answers of the CRM
BiginSyncFinish(in) ==
  /\ BagIn("bigin-sync", queues.active.sync)
  /\ LET c == BiginRunToEnd(BiginCfg(NewRun("biginJob", "start"), tasks, biginState),
                            now, in) IN
       /\ tasks' = c.tasks
       /\ biginState' = c.bs
       /\ lastRun' = Completed(c.run, {Observed("bigin", c.run, biginState, c.bs, now)})
  /\ queues' = Finished("sync", "bigin-sync")
  /\ UNCHANGED <<now, srState, calendarEvents, syncJobs, planningJobs, biginDeals,
                 googleState, gcal, runs>>

\* The processor of the sync worker returns from runGoogleCalendarSync
GoogleSyncFinish(in) ==
  /\ BagIn("google-calendar-sync", queues.active.sync)
  /\ LET c == RunToEnd(Cfg(NewRun("job", "start"), calendarEvents, googleState, gcal),
                       now, in) IN
       /\ calendarEvents' = c.events
       /\ googleState' = c.gs
       /\ gcal' = c.cal
       /\ lastRun' = Completed(c.run, {Observed("google", c.run, googleState, c.gs, now)})
  /\ queues' = Finished("sync", "google-calendar-sync")
  /\ UNCHANGED <<now, srState, tasks, syncJobs, planningJobs, biginDeals, biginState, runs>>

\* The processor of the sync worker returns from runSalesRabbitSync, which
\* found the lead tracker not connected, or from runGroceryCleanup, whose table
\* is outside this specification
OtherSyncFinish(name) ==
  /\ name \in {"salesrabbit-sync", "grocery-cleanup"}
  /\ BagIn(name, queues.active.sync)
  /\ ~Connected
  /\ queues' = Finished("sync", name)
  /\ UNCHANGED <<now, srState, tasks, calendarEvents, syncJobs, planningJobs, biginDeals,
                 googleState, biginState, gcal, runs, lastRun>>

\* The worker process starting: Redis empty or holding an earlier deployment's
\* registrations; the CRM and the calendar connected, their tokens fresh, the
\* lead tracker not connected
SchedInit ==
  /\ now = 0
  /\ srState = [isActive |-> FALSE, accessToken |-> None, refreshToken |-> None,
                tokenExpiresAt |-> NoTime, syncCursor |-> NoTime, lastSyncAt |-> NoTime,
                config |-> [callbackTrigger |-> <<>>]]
  /\ tasks = EmptyBag
  /\ calendarEvents = EmptyBag
  /\ syncJobs = <<>>
  /\ planningJobs = <<>>
  /\ biginDeals = EmptyBag
  /\ biginState = Granted("refresh", TRUE)
  /\ googleState = [Granted("refresh", TRUE) EXCEPT !.config = WithJoyCalendars(@)]
  /\ gcal = {}
  /\ runs = [p \in {} |-> NoRun]
  /\ lastRun = NoRun
  /\ \E stale \in BOOLEAN :
       queues = [NoQueues EXCEPT !.repeat = IF stale THEN StaleSchedule ELSE @]

\* The planning queue: its schedule, its on-demand jobs and its worker
PlanningNext ==
  \/ setupSchedules
  \/ \E r \in queues.repeat.planning : CronInstant("planning", r.name)
  \/ ReplanRequested
  \/ WorkerStart("planning")
  \/ WorkerStartReplan
  \/ \E name \in BagToSet(queues.active.planning) : PlanningFinish(name)

PlanningSpec == SchedInit /\ [][PlanningNext]_vars

\* The sync queue: its schedule and its worker
SyncQueueNext ==
  \/ setupSchedules
  \/ \E r \in queues.repeat.sync : CronInstant("sync", r.name)
  \/ WorkerStart("sync")
  \/ \E in \in BiginTokenInputs : BiginSyncFinish(in)
  \/ \E in \in GoogleTokenInputs : GoogleSyncFinish(in)
  \/ \E name \in BagToSet(queues.active.sync) : OtherSyncFinish(name)

SyncQueueSpec == SchedInit /\ [][SyncQueueNext]_vars

-----------------------------------------------------------------------------
(* The CRM sync run whole against the lists the CRM returns: two deals in  *)
(* open or closed stages, the list call answered 200, 304 or 500, a local  *)
(* write rejected                                                          *)

DealIds == {"d1", "d2"}
DealStages == {"Proposal", "Closed Won"}

\* GET /Deals returns every deal once
FetchedDeals ==
  {<<>>}
  \cup {<<Deal(id, stage)>> : id \in DealIds, stage \in DealStages}
  \cup {pair \in {<<Deal(a, s1), Deal(b, s2)>> : a \in DealIds, b \in DealIds,
                                                   s1 \in DealStages, s2 \in DealStages} :
          pair[1].id # pair[2].id}

ListStatuses == {200, 304, 500}
RejectedWrites == {{}, {"d1"}}

\* the CRM connected, its token fresh, no row of its deals and tasks yet
CrmInit ==
  /\ now = 0
  /\ srState = [isActive |-> FALSE, accessToken |-> None, refreshToken |-> None,
                tokenExpiresAt |-> NoTime, syncCursor |-> NoTime, lastSyncAt |-> NoTime,
                config |-> [callbackTrigger |-> <<>>]]
  /\ tasks = EmptyBag
  /\ calendarEvents = EmptyBag
  /\ syncJobs = <<>>
  /\ planningJobs = <<>>
  /\ biginDeals = EmptyBag
  /\ googleState = NoIntegration
  /\ gcal = {}
  /\ runs = [p \in {} |-> NoRun]
  /\ lastRun = NoRun
  /\ queues = NoQueues
  /\ biginState = [NoIntegration EXCEPT
        !.isActive = TRUE, !.accessToken = "granted", !.refreshToken = "refresh",
        !.tokenExpiresAt = 54000 + ExpiresIn]

\* a CRM sync whose list calls are answered with status and, when 200, with
\* deals; the database rejects the writes for the deals of fails
CrmSync(kind, status, deals, fails) ==
  BiginSync(kind, [BiginOk EXCEPT !.fetchOk = ResOk(status), !.deals = deals,
                                  !.writeFails = fails])

CrmNext ==
  \/ Tick
  \/ \E kind \in {"biginJob", "biginFull"}, status \in ListStatuses,
        deals \in FetchedDeals, fails \in RejectedWrites :
        CrmSync(kind, status, deals, fails)

CrmSpec == CrmInit /\ [][CrmNext]_vars

-----------------------------------------------------------------------------
(* The incremental CRM sync against a CRM whose users move a deal from     *)
(* stage to stage while the worker's runs go on: here biginDeals holds the *)
(* deals as GET /Deals serves them, [id, Stage, Modified_Time]             *)

\* the clock of these runs counts the instants 0..MaxClock
MaxClock == 4

\* the stages a deal goes through
NextStage(stage) ==
  CASE stage = "Qualification" -> "Proposal"
    [] stage = "Proposal" -> "Negotiation"
    [] OTHER -> stage

\* GET /Deals?...&modified_since=${state.syncCursor}: the deals modified at or
\* after the cursor, all of them without a cursor
ModifiedSince(deals, cursor) ==
  SeqOf({d \in BagToSet(deals) : cursor = NoTime \/ d.Modified_Time >= cursor})

\* one deal in the CRM, the worker idle, the CRM connected with a token that
\* outlasts the clock
CursorInit ==
  /\ now = 0
  /\ srState = [isActive |-> FALSE, accessToken |-> None, refreshToken |-> None,
                tokenExpiresAt |-> NoTime, syncCursor |-> NoTime, lastSyncAt |-> NoTime,
                config |-> [callbackTrigger |-> <<>>]]
  /\ tasks = EmptyBag
  /\ calendarEvents = EmptyBag
  /\ syncJobs = <<>>
  /\ planningJobs = <<>>
  /\ biginDeals = SetToBag({[id |-> "d1", Stage |-> "Qualification", Modified_Time |-> 0]})
  /\ googleState = NoIntegration
  /\ gcal = {}
  /\ runs = [p \in {"worker"} |-> [NewRun("biginJob", "start") EXCEPT !.pc = "done"]]
  /\ lastRun = NoRun
  /\ queues = NoQueues
  /\ biginState = [NoIntegration EXCEPT
        !.isActive = TRUE, !.accessToken = "granted", !.refreshToken = "refresh",
        !.tokenExpiresAt = 54000 + ExpiresIn]

ClockTick ==
  /\ now < MaxClock
  /\ now' = now + 1
  /\ UNCHANGED <<srState, tasks, calendarEvents, syncJobs, planningJobs, biginDeals, syncVars>>

\* a user of the CRM moves a deal to its next stage
RemoteModify(d) ==
  /\ d \in BagToSet(biginDeals)
  /\ NextStage(d.Stage) # d.Stage
  /\ biginDeals' = Update(biginDeals, d, [d EXCEPT !.Stage = NextStage(@),
                                                   !.Modified_Time = now])
  /\ UNCHANGED <<now, srState, tasks, calendarEvents, syncJobs, planningJobs, syncVars>>

\* the cron instant of "bigin-sync" with the worker free: runBiginSync starts
CursorRunStart ==
  /\ runs["worker"].pc = "done"
  /\ runs' = [runs EXCEPT !["worker"] = NewRun("biginJob", "start")]
  /\ UNCHANGED <<now, srState, tasks, calendarEvents, syncJobs, planningJobs, biginDeals,
                 googleState, biginState, gcal, lastRun, queues>>

\* the next step of the worker's runBiginSync; GET /Deals answers with the
\* deals modified since the cursor, GET /Tasks with none
CursorRunStep ==
  /\ runs["worker"].pc # "done"
  /\ LET in == [BiginOk EXCEPT !.deals = ModifiedSince(biginDeals, biginState.syncCursor),
                               !.biginTasks = <<>>]
         c == BiginJobStep(BiginCfg(runs["worker"], tasks, biginState), now, in) IN
       /\ runs' = [runs EXCEPT !["worker"] = c.run]
       /\ tasks' = c.tasks
       /\ biginState' = c.bs
  /\ UNCHANGED <<now, srState, calendarEvents, syncJobs, planningJobs, biginDeals,
                 googleState, gcal, lastRun, queues>>

CursorNext ==
  \/ ClockTick
  \/ \E d \in BagToSet(biginDeals) : RemoteModify(d)
  \/ CursorRunStart
  \/ CursorRunStep

\* the schedule keeps starting runs and the worker keeps executing them
CursorLiveSpec ==
  /\ CursorInit
  /\ [][CursorNext]_vars
  /\ WF_vars(CursorRunStart)
  /\ WF_vars(CursorRunStep)

-----------------------------------------------------------------------------
(* Observations the properties are stated on *)

SagaJobs(l) ==
  { j \in DOMAIN syncJobs :
      syncJobs[j].name = "callback-workflow" /\ syncJobs[j].data.lead = l }

\* the number of rows of table among the (distinct) rows S
Count(table, S) == BagCardinality([r \in S |-> CopiesIn(r, table)])

ProposalRows(ts, l) ==
  { r \in BagToSet(ts) :
      r.externalId = <<"sr_proposal", l>> /\ r.externalSource = "salesrabbit" }

PrepBlocks(events, l) ==
  { e \in BagToSet(events) : e.source = "ai_planned" /\ e.callbackPrepLeadId = l }

\* the executions that got past TaskCreation end in one of these
PastTaskCreation == {"no_appointment", "unscheduled_final", "scheduled"}

-----------------------------------------------------------------------------
(* Properties *)

\* C1: across the lead syncs (scheduled, manual, webhook) the callback saga job
\* of a lead is enqueued at most once, the run that first sees the lead included.
C1_SagaEnqueuedAtMostOnce ==
  \A l \in Leads : Cardinality(SagaJobs(l)) <= 1

\* C2: a "callback-workflow" job of the sync queue is executed by
\* runCallbackWorkflow: it never leaves the queue as completed without an
\* execution of the handler.
C2_JobExecutedByHandler ==
  \A j \in DOMAIN syncJobs :
    (syncJobs[j].name = "callback-workflow" /\ syncJobs[j].state = "completed")
      => syncJobs[j].runs >= 1

\* C3: over all the saga attempts for a lead, at most one CRM deal is created
\* for that lead.
C3_AtMostOneDealPerLead ==
  \A l \in Leads : CopiesIn(l, biginDeals) <= 1

C5_NoMatchEndsUnscheduled ==
  \A l \in Leads : \A j \in SagaJobs(l) :
    LET job == syncJobs[j] IN
    /\ job.outcome = "no_appointment"
         => (job.state = "delayed" /\ job.attemptsMade \in 1..3)
    /\ job.outcome = "unscheduled_final"
         => (job.state = "completed" /\ job.attemptsMade = 3 /\ job.runs = 4)
    /\ (job.outcome = "unscheduled_final" /\ job.appointment = NoTime)
         => /\ Count(tasks, ProposalRows(tasks, l)) = 1
            /\ \A r \in ProposalRows(tasks, l) : r.status = "inbox"
            /\ PrepBlocks(calendarEvents, l) = {}

C8_PrepBlockBeforeAppointment ==
  [][\A l \in Leads :
       \A e \in PrepBlocks(calendarEvents', l) \ PrepBlocks(calendarEvents, l) :
         \E j \in SagaJobs(l) :
           LET a == syncJobs'[j].appointment
               prep == syncJobs[j].data.proposalPrepMinutes
           IN /\ syncJobs'[j].runs = syncJobs[j].runs + 1
              /\ a # NoTime
              /\ e.endTime = a - 15 * 60
              /\ e.startTime = e.endTime - prep * 60
              /\ e.endTime < a
              /\ (a = 50400 /\ prep = 90) => (e.startTime = 44100 /\ e.endTime = 49500)]_vars

\* lead 42 has the prep block of a 14:00 appointment and 90 prep minutes
C8_Witness ==
  \E e \in PrepBlocks(calendarEvents, "42") : e.startTime = 44100 /\ e.endTime = 49500

\* C9: a lead has at most one prep block (ai_planned, callbackPrepLeadId the
\* lead id), however many attempts found an appointment.
C9_AtMostOnePrepBlock ==
  \A l \in Leads :
    Count(calendarEvents, PrepBlocks(calendarEvents, l)) <= 1

\* two saga jobs of lead 42 both found an appointment and completed as
\* Scheduled, and the lead has one prep block
C9_Witness ==
  /\ \E i, j \in SagaJobs("42") :
       /\ i # j
       /\ syncJobs[i].outcome = "scheduled"
       /\ syncJobs[j].outcome = "scheduled"
  /\ Count(calendarEvents, PrepBlocks(calendarEvents, "42")) = 1

\* C10: when a saga job has completed as Scheduled, the proposal task of its
\* lead has status 'scheduled' and as deadline the start of the appointment the
\* completing attempt found.
C10_ScheduledTaskHasDeadline ==
  \A l \in Leads : \A j \in SagaJobs(l) :
    (syncJobs[j].state = "completed" /\ syncJobs[j].outcome = "scheduled")
      => /\ ProposalRows(tasks, l) # {}
         /\ \A r \in ProposalRows(tasks, l) :
              r.status = "scheduled" /\ r.deadline = syncJobs[j].appointment

\* the task rows of a lead of the lead tracker
LeadRows(ts, l) ==
  { r \in BagToSet(ts) : r.externalId = <<"sr", l>> /\ r.externalSource = "salesrabbit" }

RowsOf(events, id) == { r \in BagToSet(events) : r.id = id }

\* the events.insert calls a run made for a local event
CreateCalls(run, id) == Cardinality({ i \in DOMAIN run.creates : run.creates[i] = id })

\* C11: a calendar sync run (the worker job or fullSync) that has a client makes
\* one create call for each ai_planned event of the horizon without remote id,
\* and none for any other event; when the call returns an id, the event carries
\* that id after the run; and the run that follows a run that created the
\* remote copy of an event makes no create call for it.
C11_IdempotentPush ==
  /\ [](\A p \in lastRun.prevCreated : CreateCalls(lastRun, p[1]) = 0)
  /\ [][lastRun'.n # lastRun.n =>
          \A e \in LocalEventIds :
            LET unpushed == \E r \in RowsOf(calendarEvents, e) :
                               /\ r.source = "ai_planned"
                               /\ r.googleEventId = None
                               /\ InHorizon(r.startTime, now) IN
            /\ CreateCalls(lastRun', e) <= 1
            /\ CreateCalls(lastRun', e) = 1 => unpushed
            /\ unpushed /\ Usable(googleState) => CreateCalls(lastRun', e) = 1
            /\ \A p \in lastRun'.created :
                 p[1] = e => \E r \in RowsOf(calendarEvents', e) : r.googleEventId = p[2]]_vars

\* the run before the last created the remote copy of an event; the last run,
\* which had a client and made calls, made no create call, and the event carries
\* the remote id
C11_Witness ==
  /\ lastRun.kind \in {"job", "full"}
  /\ \E o \in lastRun.lookups : o.calls # {}
  /\ lastRun.creates = <<>>
  /\ \E p \in lastRun.prevCreated :
       \E r \in RowsOf(calendarEvents, p[1]) :
         r.googleEventId = p[2] /\ InHorizon(r.startTime, now)

\* C13: a pull that lists a remote event exactly as the pull run before it
\* listed it (title, start, end and location unchanged) writes no calendar_events
\* row for it: no insert, no update, no delete.
C13_UnchangedEventNotWritten ==
  [][lastRun'.n # lastRun.n =>
       \A g \in lastRun'.seen \cap lastRun.seen :
         g.id \notin lastRun'.written \cup lastRun'.deleted]_vars

\* the remote ids a run found in its listings
ListedIds(run) == { g.id : g \in run.seen }

\* the mirrors of the horizon
MirrorsInHorizon(events, t) ==
  { r \in BagToSet(events) : r.source = "google_calendar" /\ InHorizon(r.startTime, t) }

\* C14: when a calendar sync run that listed the remote events completes (the
\* worker job or fullSync), no google_calendar mirror of the horizon is left
\* whose remote id was not in the listing.
C14_UnlistedMirrorsDeleted ==
  [][lastRun'.n # lastRun.n /\ lastRun'.listings > 0 =>
       \A r \in MirrorsInHorizon(calendarEvents', now) :
         r.googleEventId \in ListedIds(lastRun')]_vars

\* the remote copies of a local event: one per successful events.insert
RemoteCopies(e) == { g \in gcal : g.joyEventId = e }

\* C12: under any interleaving of the worker job, fullSync and the planner's
\* push, at most one create call succeeds for a local event, and an event that
\* carries a remote id carries the id of a remote copy created for it.
C12_NeverPushedTwice ==
  \A e \in LocalEventIds :
    /\ Cardinality(RemoteCopies(e)) <= 1
    /\ \A r \in RowsOf(calendarEvents, e) :
         r.googleEventId # None => \E g \in RemoteCopies(e) : g.id = r.googleEventId

\* the rows that carry a remote id
RowsOfRemote(events, gid) == { r \in BagToSet(events) : r.googleEventId = gid }

\* C15: in every state at most one calendar_events row carries a given
\* googleEventId, whatever the order and interleaving of the pulls.
C15_OneRowPerRemoteId ==
  \A gid \in {r.googleEventId : r \in BagToSet(calendarEvents)} \ {None} :
    Count(calendarEvents, RowsOfRemote(calendarEvents, gid)) <= 1

\* the (externalId, externalSource) pairs of the task rows
TaskKeys(ts) == { <<r.externalId, r.externalSource>> : r \in BagToSet(ts) }

\* C17: in every state the pair (externalId, externalSource) identifies at most
\* one task row, whatever the interleaving of the scheduled sync with a sync
\* run of the web process.
C17_OneTaskPerExternalKey ==
  \A k \in TaskKeys(tasks) : Count(tasks, FindTask(tasks, k[1], k[2])) <= 1

\* whether a refresh is due for the row a run found: now > tokenExpiresAt - 5
\* minutes, a missing tokenExpiresAt counting as expired
RefreshDue(o) == o.expBefore = NoTime \/ o.at > o.expBefore - 5 * 60

\* C18: on every token path (lib getAccessToken and getCalendarClient, the two
\* scheduled sync jobs, the saga's getBiginToken and calendar lookup) a run that
\* finds a usable row makes no refresh call when now <= tokenExpiresAt - 5
\* minutes and calls the provider with the stored token; when now >
\* tokenExpiresAt - 5 minutes (or tokenExpiresAt is missing) it makes one
\* refresh call if a refresh token is stored, and every provider call it makes
\* uses the token that refresh returned.
C18_RefreshBeforeCall ==
  \A o \in lastRun.lookups :
    o.usableBefore =>
      /\ ~RefreshDue(o) =>
            /\ o.refreshCalls = 0
            /\ \A c \in o.calls : c.exp = o.expBefore
      /\ RefreshDue(o) =>
            /\ o.hadRefreshToken => o.refreshCalls = 1
            /\ \A c \in o.calls : o.refreshCalls = 1 /\ c.exp = o.at + ExpiresIn

\* a run found a token expiring in 4 minutes, refreshed it and called the provider
C18_Witness ==
  \E o \in lastRun.lookups :
    /\ o.usableBefore
    /\ o.expBefore - o.at = 4 * 60
    /\ o.refreshCalls = 1
    /\ o.calls # {}

\* C19: whenever a run needs a token refresh and the refresh fails, the
\* provider's isActive is false after the run, the run has made no provider
\* API call, and it has made at most one refresh call.
C19_FailedRefreshDeactivates ==
  \A o \in lastRun.lookups :
    o.refreshFailed =>
      /\ ~o.activeAfter
      /\ o.calls = {}
      /\ o.refreshCalls <= 1

\* C20: every provider API call of a sync run is made while the provider's
\* row has isActive = true.
C20_CallsOnlyWhileActive ==
  \A p \in DOMAIN runs : \A c \in runs[p].calls : c.isActive

\* a row with the token material and the cursor cleared
Cleared(state) ==
  /\ ~state.isActive
  /\ state.accessToken = None
  /\ state.refreshToken = None
  /\ state.tokenExpiresAt = NoTime
  /\ state.syncCursor = NoTime

\* C21: every disconnect of a provider (lead tracker, CRM, calendar) ends with
\* the provider's row having isActive = false and accessToken, refreshToken,
\* tokenExpiresAt and syncCursor cleared, however the revocation call ends.
C21_DisconnectClears ==
  [][/\ Disconnect => Cleared(srState')
     /\ BiginDisconnect => Cleared(biginState')
     /\ GoogleDisconnect => Cleared(googleState')]_vars

\* the CRM was connected and synced, then disconnected: the sync left its
\* time, the token material and the cursor are gone
C21_Witness ==
  /\ Cleared(biginState)
  /\ biginState.lastSyncAt # NoTime
  /\ Cleared(googleState)
  /\ googleState.lastSyncAt # NoTime
  /\ Cleared(srState)
  /\ srState.lastSyncAt # NoTime

\* the registrations of job `name` on queue q
Registrations(q, name) == {r \in queues.repeat[q] : r.name = name}

\* C22: once setupSchedules has run (any number of times, whatever Redis held
\* before), each queue holds exactly one repeatable registration per scheduled
\* job name and none under another name, and a cron instant of a job yields
\* exactly one job.
C22_OneRegistrationPerJob ==
  queues.scheduled =>
    /\ \A q \in QueueNames :
         /\ \A s \in Schedule[q] : Registrations(q, s.name) = {s}
         /\ \A r \in queues.repeat[q] : r \in Schedule[q]
    /\ queues.ticked <= 1

\* setupSchedules has run and a cron instant has yielded its job
C22_Witness ==
  /\ queues.scheduled
  /\ queues.ticked = 1
  /\ \E q \in QueueNames : queues.wait[q] # <<>>

\* C23: at most one job of the planning queue is executing at any time.
C23_OnePlanningJobAtATime ==
  BagCardinality(queues.active.planning) <= 1

\* a planning job is executing while a recurring and an on-demand job wait
C23_Witness ==
  /\ BagCardinality(queues.active.planning) = 1
  /\ Len(queues.wait.planning) = MaxWaiting
  /\ Len(planningJobs) = MaxWaiting

\* C28: while a CRM sync job is executing (failing, or waiting for an answer
\* of the CRM), a calendar sync job waiting on the sync queue can start.
C28_CalendarSyncNotBlockedByCrm ==
  (BagIn("bigin-sync", queues.active.sync) /\ queues.wait.sync # <<>>
     /\ Head(queues.wait.sync) = "google-calendar-sync")
    => HasFreeSlot(queues.active, "sync")

\* C24: in a calendar sync run (the worker's job, lib fullSync) no events.insert
\* of the push is called after events.list of the pull has been called, and no
\* remote event the run created is visited by the run's pull as an external
\* event or gets a mirror row written by it.
C24_PushBeforePull ==
  /\ ~lastRun.pushedLate
  /\ \A pair \in lastRun.created :
       /\ pair[2] \notin {g.id : g \in lastRun.seen}
       /\ pair[2] \notin lastRun.written

\* a run pushed an event into the primary calendar (no Joy calendar is
\* configured) and then listed that calendar
C24_Witness ==
  /\ lastRun.listings > 0
  /\ \E pair \in lastRun.created :
       \E g \in gcal : g.id = pair[2] /\ g.calendarId = "primary"

\* the local ids of a sequence of create calls
Attempted(run) == {run.creates[i] : i \in DOMAIN run.creates}

\* C25: a calendar sync run that starts with a usable token calls events.insert
\* for every unpushed event of its batch, whichever of the calls fail; an event
\* whose call failed is left without googleEventId; and the run goes on to the
\* listing of the pull.
C25_FailedCreateSkipsOnlyThatEvent ==
  [][(lastRun'.n # lastRun.n /\ lastRun'.kind \in {"job", "full"} /\ Usable(googleState))
       => /\ \A e \in toPush(calendarEvents, now) :
               /\ e.id \in Attempted(lastRun')
               /\ e.id \notin {pair[1] : pair \in lastRun'.created}
                    => \E r \in BagToSet(calendarEvents') :
                         r.id = e.id /\ r.googleEventId = None
          /\ lastRun'.listIssued]_vars

\* a run whose first events.insert failed, whose second succeeded, and which
\* listed the primary calendar
C25_Witness ==
  /\ lastRun.listIssued
  /\ Len(lastRun.creates) = 2
  /\ Cardinality(lastRun.created) = 1
  /\ lastRun.creates[1] \notin {pair[1] : pair \in lastRun.created}

\* the deals of a fetched list whose write the database accepts and which are
\* in an open stage: each of them has a row once it has been processed
Importable(deals, fails) ==
  {deals[i] : i \in {j \in DOMAIN deals : /\ deals[j].id \notin fails
                                           /\ deals[j].Stage \notin ClosedStages}}

\* C26: when the write for one deal of a fetched list is rejected, every other
\* deal of the list is still processed in the same run: each open deal whose
\* write is accepted has its Task row after the run.
C26_FailedRecordSkipsOnlyItself ==
  [][\A kind \in {"biginJob", "biginFull"}, deals \in FetchedDeals, fails \in RejectedWrites :
       CrmSync(kind, 200, deals, fails)
         => \A deal \in Importable(deals, fails) :
              FindTask(tasks', ExternalId("", deal.id), "bigin") # {}]_vars

\* C27: a CRM sync whose list calls are answered with 304 or with another
\* non-2xx status leaves syncCursor and the Task rows as they were.
C27_FailedListAdvancesNothing ==
  [][\A kind \in {"biginJob", "biginFull"}, status \in ListStatuses,
        deals \in FetchedDeals, fails \in RejectedWrites :
       (~ResOk(status) /\ CrmSync(kind, status, deals, fails))
         => /\ biginState'.syncCursor = biginState.syncCursor
            /\ tasks' = tasks]_vars

\* C30: a deal in a closed stage that has no Task row gets none from the run;
\* one that has a Task row has the row retitled with the closed stage and no
\* row added.
C30_ClosedDealsUpdateOnly ==
  [][\A kind \in {"biginJob", "biginFull"}, deals \in FetchedDeals :
       CrmSync(kind, 200, deals, {})
         => \A i \in DOMAIN deals :
              deals[i].Stage \in ClosedStages
                => LET before == FindTask(tasks, ExternalId("", deals[i].id), "bigin")
                       after == FindTask(tasks', ExternalId("", deals[i].id), "bigin") IN
                   /\ before = {} => after = {}
                   /\ before # {} => /\ \A r \in after : r.title = deals[i].Stage
                                      /\ Count(tasks', after) = Count(tasks, before)]_vars

\* the Task row of a deal carries a closed stage: the deal was imported while
\* open and a later run applied its closing
C30_Witness ==
  /\ lastRun.kind \in {"biginJob", "biginFull"}
  /\ \E r \in BagToSet(tasks) :
       r.externalSource = "bigin" /\ r.externalId = ExternalId("", "d1")
         /\ r.title \in ClosedStages
  /\ FindTask(tasks, ExternalId("", "d2"), "bigin") = {}

\* the remote events C29 is about
Skippable(g) == g.joyEventId # NoRef \/ g.status = "cancelled" \/ ~g.timed

\* C29: a remote event that carries the joyEventId marker, is cancelled or is
\* an all-day event when a calendar sync runs is not written by the run's
\* pull: no row that refers to it is inserted or changed.
C29_SkippedEventsNeverMirrored ==
  [][(lastRun'.n # lastRun.n /\ lastRun'.kind \in {"job", "full"})
       => \A g \in gcal :
            Skippable(g) => /\ g.id \notin lastRun'.written
                            /\ g.id \notin {h.id : h \in lastRun'.seen}
                            /\ RowsOfRemote(calendarEvents', g.id) \subseteq RowsOfRemote(calendarEvents, g.id)]_vars

\* the worker's job has listed the primary calendar, where a cancelled event
\* whose mirror row is out of date, or an all-day event without a row, was left
\* alone, next to an event the planner pushed
C29_Witness ==
  /\ lastRun.kind = "job"
  /\ lastRun.listings > 0
  /\ lastRun.written = {}
  /\ \E g \in gcal : g.joyEventId # NoRef /\ g.calendarId = "primary"
  /\ \E g \in gcal :
       /\ g.joyEventId = NoRef
       /\ \/ g.status = "cancelled" /\ \E r \in RowsOfRemote(calendarEvents, g.id) : r.title # Title(g)
          \/ ~g.timed /\ RowsOfRemote(calendarEvents, g.id) = {}

\* the appointment events of the lead tracker
Appointments(events) ==
  Count(events, {e \in BagToSet(events) : e.source = "salesrabbit"})

C32_AbsentIsSuccess ==
  (/\ lastRun.kind = "delete"
   /\ lastRun.answers # <<>>
   /\ \A i \in DOMAIN lastRun.answers : lastRun.answers[i] \in {404, 410})
    => lastRun.returned

\* C33: on attempt 0, whatever way the deal creation fails (no usable CRM
\* token, POST /Deals refused, a fetch of the step failing), the job keeps no
\* deal id and the same execution goes on to TaskCreation: with the insert
\* accepted, the lead's proposal task exists after the execution.
C33_DealFailureStillCreatesTask ==
  [][\A j \in DOMAIN syncJobs :
       \A in \in SagaInputs(j) :
         (/\ syncJobs[j].attemptsMade = 0
          /\ in.deal # "created"
          /\ in.insertOk
          /\ SagaWorker(j, in))
           => /\ syncJobs'[j].data.biginDealId = None
              /\ ProposalRows(tasks', syncJobs[j].data.lead) # {}]_vars

\* the remote ids a listing of the calendars pulled from returns at t
StillListed(config, cal, t) ==
  LET pulled == {"primary"} \cup (IF config.workCalendarId # None
                                   THEN {config.workCalendarId} ELSE {}) IN
  {g.id : g \in UNION {Mirrored(ListEvents(cal, calendarId, t)) : calendarId \in pulled}}

\* C34: the drift cleanup of a pull deletes the mirror of a remote event only
\* when the event is gone from the calendars pulled from: a failed listing of
\* a calendar costs no mirror of an event that is still there.
C34_FailedListingDeletesNoMirror ==
  [][(lastRun'.n # lastRun.n /\ lastRun'.kind = "full")
       => lastRun'.deleted \cap StillListed(googleState.config, gcal, now) = {}]_vars

\* every deal of the CRM has a Task row that carries its stage
DealsReflected ==
  \A d \in BagToSet(biginDeals) :
    \E r \in FindTask(tasks, ExternalId("", d.id), "bigin") : r.title = d.Stage

\* C35: no modification of a deal is missed for good: with runs that keep
\* coming, once the CRM's users stop modifying, every deal's stage is
\* reflected in its Task from some run on.
C35_NoModificationMissed == <>[]DealsReflected

\* C36: a lead whose task is marked callbackProcessed has a saga job: the
\* mark is never left behind by an enqueue that failed.
C36_ProcessedLeadHasSagaJob ==
  \A l \in Leads :
    (\E r \in LeadRows(tasks, l) : r.callbackProcessed) => SagaJobs(l) # {}

\* the keys of the calendar provider's config a scheduled tick does not set
ForeignConfigKeys == {"workCalendarId", "joyWorkCalendarId", "joyPersonalCalendarId"}

\* C37: a run of the scheduled calendar sync leaves workCalendarId,
\* joyWorkCalendarId and joyPersonalCalendarId of the config as they were.
C37_TickKeepsForeignConfig ==
  [][(lastRun'.n # lastRun.n /\ lastRun'.kind = "job")
       => \A k \in ForeignConfigKeys : googleState'.config[k] = googleState.config[k]]_vars

\* the appointment events of a lead
AppointmentsOf(events, l) ==
  {e \in BagToSet(events) : e.source = "salesrabbit" /\ e.salesrabbitLeadId = l}

\* C38: whatever lead-sync runs have happened, a lead has at most one
\* appointment event of source "salesrabbit", and a step that adds an
\* appointment event adds one that starts after the time of the step.
C38_OneFutureAppointmentPerLead ==
  /\ [](\A l \in Leads : Count(calendarEvents, AppointmentsOf(calendarEvents, l)) <= 1)
  /\ [][\A l \in Leads :
          \A e \in AppointmentsOf(calendarEvents', l) :
            CopiesIn(e, calendarEvents') > CopiesIn(e, calendarEvents) => e.startTime > now]_vars

\* the appointment of lead 42 was created before it began, and a run after it
\* began, at 15:00, has left it the only one
C38_Witness ==
  /\ now = 54000
  /\ srState.lastSyncAt = 54000
  /\ Count(calendarEvents, AppointmentsOf(calendarEvents, "42")) = 1
  /\ \A e \in AppointmentsOf(calendarEvents, "42") : e.startTime < now

-----------------------------------------------------------------------------
(* The user's status changes between the runs of the lead sync and of the  *)
(* CRM sync                                                                *)

\* the statuses the user or the saga moves a task to
MovedStatuses == {"scheduled", "completed", "cancelled"}

\* PATCH /api/tasks/[id] with { status }: the row's status, and completedAt
\* when the status is "completed"
PatchTask(row, status) ==
  /\ CopiesIn(row, tasks) > 0
  /\ tasks' = Update(tasks, row,
                [row EXCEPT !.status = status,
                            !.completedAt = IF status = "completed" THEN now ELSE @])
  /\ UNCHANGED <<now, srState, calendarEvents, syncJobs, planningJobs, biginDeals, syncVars>>

\* GET /leads returns lead 41, a callback lead
StatusLeadLists == { q \in LeadLists : Len(q) = 1 /\ q[1].id = "41" }

\* deal d1 in either stage
StatusDeals == {<<Deal("d1", stage)>> : stage \in DealStages}

\* both providers connected, the callback trigger enabled, no row yet
StatusInit ==
  /\ now = 0
  /\ srState = [isActive |-> TRUE, accessToken |-> "token", refreshToken |-> None,
                tokenExpiresAt |-> NoTime, syncCursor |-> NoTime, lastSyncAt |-> NoTime,
                config |-> [callbackTrigger |-> StatusTrigger]]
  /\ tasks = EmptyBag
  /\ calendarEvents = EmptyBag
  /\ syncJobs = <<>>
  /\ planningJobs = <<>>
  /\ biginDeals = EmptyBag
  /\ googleState = NoIntegration
  /\ gcal = {}
  /\ runs = [p \in {} |-> NoRun]
  /\ lastRun = NoRun
  /\ queues = NoQueues
  /\ biginState = [NoIntegration EXCEPT
        !.isActive = TRUE, !.accessToken = "granted", !.refreshToken = "refresh",
        !.tokenExpiresAt = 54000 + ExpiresIn]

StatusNext ==
  \/ Tick
  \/ \E row \in BagToSet(tasks), status \in MovedStatuses : PatchTask(row, status)
  \/ \E leads \in StatusLeadLists : runSalesRabbitSync(leads, FALSE)
  \/ \E kind \in {"biginJob", "biginFull"}, deals \in StatusDeals :
        CrmSync(kind, 200, deals, {})

StatusSpec == StatusInit /\ [][StatusNext]_vars

\* the rows of one externalId and externalSource
RowsOfKey(ts, row) ==
  { r \in BagToSet(ts) : /\ r.externalId = row.externalId
                         /\ r.externalSource = row.externalSource }

\* how many rows of row's key have row's status and completedAt
WithStatusOf(ts, row) ==
  Count(ts, { r \in RowsOfKey(ts, row) : /\ r.status = row.status
                                         /\ r.completedAt = row.completedAt })

====
